---------------------------- MODULE Spec2Model ----------------------------
(***************************************************************************)
(* Work Boost: subscription store (Deno KV) with its derived indexes, the  *)
(* subscribe / unsubscribe handlers that read-merge-write it, the webhook  *)
(* authenticators of the two platforms and the Deno.serve entry point.     *)
(*                                                                         *)
(* Three specifications share the module:                                  *)
(*   Spec       the record store and the handlers that run against it as   *)
(*              interleaved asynchronous tasks (one step per KV await);    *)
(*   SpecAuth   the authenticators applied to bounded sets of requests;    *)
(*   SpecServe  the HTTP entry point of main.ts and the start-up check of  *)
(*              app/index.ts.                                              *)
(* Each specification keeps the variables of the others unchanged.         *)
(***************************************************************************)
EXTENDS Integers, Sequences, FiniteSets, TLC

(***************************************************************************)
(* Bounds of the model.                                                    *)
(***************************************************************************)
NumUsers == 2
MaxOps == 2
MaxTime == 2

Users == 1..NumUsers
Tasks == 1..MaxOps
Times == 1..MaxTime

(***************************************************************************)
(* entity/subscription.ts                                                  *)
(***************************************************************************)
Platform == {"slack", "telegram"}

\* Chat ids: 0 stands for an absent (undefined) destination.  A Slack
\* destination is the Slack user id itself; a Telegram destination is the id
\* of the chat the command came from.
TelegramChatId(u) == 100 + u

NoPlatforms == [p \in Platform |-> 0]

\* A Subscription value.  timezone = 0 and lastSentAt = 0 stand for undefined.
Subscription(userId, platforms, enabled, timezone, subscribedAt, lastSentAt) ==
  [userId |-> userId, platforms |-> platforms, enabled |-> enabled,
   timezone |-> timezone, subscribedAt |-> subscribedAt, lastSentAt |-> lastSentAt]

\* Array.prototype.includes
Includes(seq, x) == \E i \in 1..Len(seq) : seq[i] = x

\* Array.prototype.filter((p) => p !== x)
RECURSIVE FilterOut(_, _)
FilterOut(seq, x) ==
  IF seq = <<>> THEN <<>>
  ELSE IF Head(seq) = x THEN FilterOut(Tail(seq), x)
       ELSE <<Head(seq)>> \o FilterOut(Tail(seq), x)

(***************************************************************************)
(* Deno KV.  A key space maps a user id to <<>> (no entry) or <<value>>.   *)
(***************************************************************************)
KeySpaces == {"subscriptions", "subscriptions_by_user", "active_subscriptions"}

EmptyKv == [ks \in KeySpaces |-> [u \in Users |-> <<>>]]

KvSet(ks, id, value) == [type |-> "set", ks |-> ks, id |-> id, value |-> <<value>>]
KvDelete(ks, id) == [type |-> "delete", ks |-> ks, id |-> id, value |-> <<>>]

ApplyOp(store, op) ==
  [store EXCEPT ![op.ks][op.id] = IF op.type = "set" THEN op.value ELSE <<>>]

\* A mutation list that is applied only up to its first operation, as
\* sequential independent writes interrupted after the first would be.
CommitPartial(store, ops) ==
  IF ops = <<>> THEN store ELSE ApplyOp(store, Head(ops))

\* kv.atomic()...commit(): every queued mutation is applied in one step.
RECURSIVE Commit(_, _)
Commit(store, ops) ==
  IF ops = <<>> THEN store ELSE Commit(ApplyOp(store, Head(ops)), Tail(ops))

\* The mutations of upsertSubscription with the index delete left out.
UpsertOpsNoDelete(s) ==
  <<KvSet("subscriptions", s.userId, s),
    KvSet("subscriptions_by_user", s.userId, s)>>
  \o (IF Len(s.enabled) > 0
        THEN <<KvSet("active_subscriptions", s.userId, s)>>
        ELSE <<>>)

\* Database.upsertSubscription: the mutations queued on the atomic operation.
UpsertOps(s) ==
  LET isActive == Len(s.enabled) > 0
  IN  <<KvSet("subscriptions", s.userId, s),
        KvSet("subscriptions_by_user", s.userId, s),
        IF isActive THEN KvSet("active_subscriptions", s.userId, s)
                    ELSE KvDelete("active_subscriptions", s.userId)>>

\* An upsert that merges the enabled list into the stored one.
upsertSubscriptionMerging(store, s) ==
  LET old == store["subscriptions"][s.userId]
  IN  Commit(store, UpsertOps(IF old = <<>> THEN s
                              ELSE [s EXCEPT !.enabled = old[1].enabled \o @]))

upsertSubscription(store, s) == Commit(store, UpsertOps(s))

\* Database.getSubscriptionByUserId: <<>> for null.
getSubscriptionByUserId(store, userId) == store["subscriptions"][userId]

\* Database.getAllActiveSubscriptions: the users listed by the active index.
getAllActiveSubscriptions(store) ==
  {u \in Users : store["active_subscriptions"][u] # <<>>}

(***************************************************************************)
(* Handlers as tasks.  A task is one invocation of a handler; pc names the *)
(* KV await it is suspended at.  existing is the handler's local copy of   *)
(* the record, inner the local copy of a nested Database method.           *)
(***************************************************************************)
IdleTask ==
  [op |-> "none", user |-> 0, platform |-> "none", chat |-> 0, ts |-> 0,
   pc |-> "idle", existing |-> <<>>, inner |-> <<>>]

NewTask(op, user, platform, chat, ts, pc) ==
  [op |-> op, user |-> user, platform |-> platform, chat |-> chat, ts |-> ts,
   pc |-> pc, existing |-> <<>>, inner |-> <<>>]

ReadPcs == {"spc_read", "dp_read", "ul_read", "hs_read", "hs_spc_read",
            "ss_read", "ss_spc_read", "uc_read"}
WritePcs == {"spc_write", "dp_write", "ul_write", "hs_upsert", "hs_spc_write",
             "ss_create", "ss_spc_write", "ss_upsert", "uc_write"}

\* Result of one step: the task afterwards and the record it commits (if any).
StepResult(t, pc, write) == [task |-> [t EXCEPT !.pc = pc], write |-> write]
Finish(t, write) ==
  [task |-> [t EXCEPT !.pc = "done", !.existing = <<>>, !.inner = <<>>],
   write |-> write]

\* A setPlatformChatId that creates the record of an absent user.
SetPlatformChatIdStepCreating(t, cur) ==
  IF t.pc = "spc_read"
    THEN StepResult([t EXCEPT !.inner =
                       IF cur # <<>> THEN cur
                       ELSE <<Subscription(t.user, NoPlatforms, <<>>, 0, t.ts, 0)>>],
                    "spc_write", <<>>)
    ELSE LET existing == t.inner[1]
         IN  Finish(t, <<[existing EXCEPT !.platforms[t.platform] = t.chat]>>)

\* Database.setPlatformChatId(userId, platform, chatId)
SetPlatformChatIdStep(t, cur) ==
  IF t.pc = "spc_read"
    THEN IF cur # <<>> THEN StepResult([t EXCEPT !.inner = cur], "spc_write", <<>>)
                       ELSE Finish(t, <<>>)
    ELSE LET existing == t.inner[1]
         IN  Finish(t, <<[existing EXCEPT !.platforms[t.platform] = t.chat]>>)

\* Database.disablePlatform(userId, platform)
DisablePlatformStep(t, cur) ==
  IF t.pc = "dp_read"
    THEN IF cur # <<>> THEN StepResult([t EXCEPT !.inner = cur], "dp_write", <<>>)
                       ELSE Finish(t, <<>>)
    ELSE LET existing == t.inner[1]
         IN  Finish(t, <<[existing EXCEPT !.enabled = FilterOut(@, t.platform)]>>)

\* Database.updateLastSentAt(userId, timestamp)
UpdateLastSentAtStep(t, cur) ==
  IF t.pc = "ul_read"
    THEN IF cur # <<>> THEN StepResult([t EXCEPT !.inner = cur], "ul_write", <<>>)
                       ELSE Finish(t, <<>>)
    ELSE LET existing == t.inner[1]
         IN  Finish(t, <<[existing EXCEPT !.lastSentAt = t.ts]>>)

\* A handleSubscribe without the isSubscribed check.
HandleSubscribeStepNoCheck(t, cur, time) ==
  CASE t.pc = "hs_read" -> StepResult([t EXCEPT !.existing = cur], "hs_upsert", <<>>)
    [] t.pc = "hs_upsert" ->
         LET e == t.existing
         IN  StepResult(t, "hs_spc_read",
               <<Subscription(t.user,
                   IF e # <<>> THEN e[1].platforms ELSE NoPlatforms,
                   (IF e # <<>> THEN e[1].enabled ELSE <<>>) \o <<"telegram">>,
                   IF e # <<>> THEN e[1].timezone ELSE 0,
                   IF e # <<>> THEN e[1].subscribedAt ELSE time,
                   0)>>)
    [] t.pc = "hs_spc_read" ->
         IF cur # <<>> THEN StepResult([t EXCEPT !.inner = cur], "hs_spc_write", <<>>)
                       ELSE Finish(t, <<>>)
    [] t.pc = "hs_spc_write" ->
         Finish(t, <<[t.inner[1] EXCEPT !.platforms["telegram"] = t.chat]>>)

\* handlers/subscribe.ts handleSubscribe (Telegram /subscribe)
HandleSubscribeStep(t, cur, time) ==
  CASE t.pc = "hs_read" ->
         IF cur # <<>> /\ Includes(cur[1].enabled, "telegram")
           THEN Finish(t, <<>>)
           ELSE StepResult([t EXCEPT !.existing = cur], "hs_upsert", <<>>)
    [] t.pc = "hs_upsert" ->
         LET e == t.existing
         IN  StepResult(t, "hs_spc_read",
               <<Subscription(t.user,
                   IF e # <<>> THEN e[1].platforms ELSE NoPlatforms,
                   (IF e # <<>> THEN e[1].enabled ELSE <<>>) \o <<"telegram">>,
                   IF e # <<>> THEN e[1].timezone ELSE 0,
                   IF e # <<>> THEN e[1].subscribedAt ELSE time,
                   0)>>)
    [] t.pc = "hs_spc_read" ->
         IF cur # <<>> THEN StepResult([t EXCEPT !.inner = cur], "hs_spc_write", <<>>)
                       ELSE Finish(t, <<>>)
    [] t.pc = "hs_spc_write" ->
         Finish(t, <<[t.inner[1] EXCEPT !.platforms["telegram"] = t.chat]>>)

\* routes/slack.ts handleSlackSubscribe
HandleSlackSubscribeStep(t, cur, time) ==
  CASE t.pc = "ss_read" ->
         IF cur # <<>> THEN StepResult([t EXCEPT !.existing = cur], "ss_spc_read", <<>>)
                       ELSE StepResult(t, "ss_create", <<>>)
    [] t.pc = "ss_create" ->
         Finish(t, <<Subscription(t.user, [NoPlatforms EXCEPT !["slack"] = t.user],
                                  <<"slack">>, 0, time, 0)>>)
    [] t.pc = "ss_spc_read" ->
         IF cur # <<>>
           THEN StepResult([t EXCEPT !.inner = cur], "ss_spc_write", <<>>)
           ELSE IF ~Includes(t.existing[1].enabled, "slack")
                  THEN StepResult(t, "ss_upsert", <<>>)
                  ELSE Finish(t, <<>>)
    [] t.pc = "ss_spc_write" ->
         LET w == <<[t.inner[1] EXCEPT !.platforms["slack"] = t.user]>>
         IN  IF ~Includes(t.existing[1].enabled, "slack")
               THEN StepResult([t EXCEPT !.inner = <<>>], "ss_upsert", w)
               ELSE Finish(t, w)
    [] t.pc = "ss_upsert" ->
         Finish(t, <<[t.existing[1] EXCEPT !.enabled = Append(@, "slack")]>>)

\* handlers/unsubscribe.ts handleUnsubscribeConfirm
HandleUnsubscribeConfirmStep(t, cur) ==
  IF t.pc = "uc_read"
    THEN IF cur # <<>> THEN StepResult([t EXCEPT !.existing = cur], "uc_write", <<>>)
                       ELSE Finish(t, <<>>)
    ELSE Finish(t, <<[t.existing[1] EXCEPT !.enabled = FilterOut(@, "telegram")]>>)

\* One step of any task, given the primary record its user has at that moment.
TaskStep(t, cur, time) ==
  CASE t.op = "setPlatformChatId" -> SetPlatformChatIdStep(t, cur)
    [] t.op = "disablePlatform" -> DisablePlatformStep(t, cur)
    [] t.op = "updateLastSentAt" -> UpdateLastSentAtStep(t, cur)
    [] t.op = "handleSubscribe" -> HandleSubscribeStep(t, cur, time)
    [] t.op = "handleSlackSubscribe" -> HandleSlackSubscribeStep(t, cur, time)
    [] t.op = "handleUnsubscribeConfirm" -> HandleUnsubscribeConfirmStep(t, cur)

(***************************************************************************)
(* Work entries.  ['messages', id] is the primary key space and            *)
(* ['messages_by_user', userId, id] the per-owner index; ids are numbered  *)
(* in key order.                                                           *)
(***************************************************************************)
MaxMessages == 3

NoMessages ==
  [messages |-> [id \in 1..MaxMessages |-> <<>>],
   messages_by_user |-> [key \in Users \X (1..MaxMessages) |-> <<>>]]

\* Database.storeDailyWorkMessage: both sets in one atomic commit.
storeDailyWorkMessage(store, message) ==
  [store EXCEPT !.messages[message.id] = <<message>>,
                !.messages_by_user[<<message.userId, message.id>>] = <<message>>]

\* The entries under the owner's prefix as kv.list yields them, not sorted.
getMessagesByUserIdKeyOrder(store, userId) ==
  LET ids == {id \in 1..MaxMessages : store.messages_by_user[<<userId, id>>] # <<>>}
  IN  [k \in 1..Cardinality(ids) |->
         store.messages_by_user[<<userId,
           CHOOSE id \in ids : Cardinality({o \in ids : o < id}) = k - 1>>][1]]

\* Database.getMessagesByUserId: the entries under the owner's prefix in key
\* order, then Array.prototype.sort by date (a stable sort).
getMessagesByUserId(store, userId) ==
  LET listed == getMessagesByUserIdKeyOrder(store, userId)
      Rank(k) == 1 + Cardinality({j \in 1..Len(listed) :
                        \/ listed[j].date < listed[k].date
                        \/ listed[j].date = listed[k].date /\ j < k})
  IN  [r \in 1..Len(listed) |-> listed[CHOOSE k \in 1..Len(listed) : Rank(k) = r]]

(***************************************************************************)
(* State.                                                                  *)
(***************************************************************************)
VARIABLES
  kv,        \* the Deno KV store: key space -> user id -> <<>> or <<value>>
  tasks,     \* task id -> task
  started,   \* number of handler invocations started so far
  now,       \* the clock read by new Date()
  areq,      \* SpecAuth: the Slack request under validation and its environment
  ares,      \* SpecAuth: what each authenticator answered for areq
  srv,       \* SpecServe: the webhook server of main.ts and its environment
  sch,       \* SpecSched: one run of the daily-summary cron callback
  fmt,       \* SpecFormat: one call of a formatter function
  msgs,      \* the work entries in Deno KV: primary key space and per-owner index
  bat,       \* SpecBatch: one call of batchProcess with the configured batch size
  mig,       \* SpecMigrate: the legacy ['users'] records and the migration's progress
  dis        \* SpecDispatch: one run's platform loops, send by send

storeVars == <<kv, tasks, started, now, msgs>>
authVars == <<areq, ares>>
vars == <<kv, tasks, started, now, areq, ares, srv, sch, fmt, msgs, bat, mig, dis>>

\* No migration: no legacy record, nothing flagged.
MigrateIdle ==
  mig = [phase |-> "none", users |-> <<>>, queue |-> <<>>, migrated |-> {},
         flag |-> FALSE]

\* No dispatch followed.
DispatchIdle ==
  dis = [phase |-> "none", parts |-> 0, subscriptions |-> <<>>, procs |-> <<>>]

\* A JavaScript number: NaN or an integer.
NaN == [nan |-> TRUE, val |-> 0]
Num(n) == [nan |-> FALSE, val |-> n]

\* No call of batchProcess.
BatchIdle ==
  bat = [pc |-> "none", env |-> <<>>, batchSize |-> NaN, items |-> <<>>, i |-> NaN,
         batch |-> <<>>, results |-> <<>>, calls |-> <<>>]

InitStore ==
  /\ kv = EmptyKv
  /\ msgs = NoMessages
  /\ MigrateIdle
  /\ DispatchIdle
  /\ BatchIdle
  /\ tasks = [i \in Tasks |-> IdleTask]
  /\ started = 0
  /\ now = 1

\* The values the variables of the other specifications rest at.
AuthIdle ==
  /\ areq = [secret |-> 0, nowSec |-> 0, ts |-> [kind |-> "absent", val |-> 0],
             sig |-> <<>>, body |-> [isBuffer |-> FALSE, validJson |-> FALSE, content |-> 0]]
  /\ ares = [mw |-> "pending", express |-> "pending", deno |-> "pending",
             tse |-> "pending", calls |-> <<>>]

\* No server process: Spec and SpecAuth exercise the store and the authenticators
\* directly.
ServeIdle ==
  srv = [phase |-> "none", entry |-> "none", production |-> FALSE, configured |-> {},
         subtleTimingSafeEqual |-> FALSE, users |-> [u \in Users |-> <<>>],
         messages |-> 0, handled |-> 0, served |-> 0,
         last |-> [path |-> "none", status |-> 0, authenticated |-> FALSE,
                           token |-> <<>>]]

\* No scheduler run.
SchedIdle ==
  sch = [phase |-> "none", batchSize |-> 0, subscriptions |-> <<>>, i |-> 0,
         procs |-> <<>>, results |-> <<>>, observed |-> <<>>, listed |-> FALSE,
         lastError |-> [user |-> 0, code |-> 0]]

\* No formatter call.
FormatIdle ==
  fmt = [phase |-> "none", text |-> <<>>, maxLength |-> 0, messages |-> <<>>,
         remainders |-> <<>>,
         response |-> [success |-> FALSE, completed |-> <<>>, incomplete |-> <<>>,
                       planned |-> <<>>],
         formatted |-> {}, slack |-> <<>>, telegram |-> <<>>]

Init == InitStore /\ AuthIdle /\ ServeIdle /\ SchedIdle /\ FormatIdle

\* A handler invocation takes the next free task slot.
Begin(t) ==
  /\ started < MaxOps
  /\ started' = started + 1
  /\ tasks' = [tasks EXCEPT ![started + 1] = t]
  /\ UNCHANGED <<kv, now, authVars, srv, sch, fmt, msgs, bat, mig, dis>>

\* Telegram /subscribe command or button for user u.
StartHandleSubscribe(u) ==
  Begin(NewTask("handleSubscribe", u, "telegram", TelegramChatId(u), 0, "hs_read"))

\* Slack /subscribe command for user u.
StartHandleSlackSubscribe(u) ==
  Begin(NewTask("handleSlackSubscribe", u, "slack", u, 0, "ss_read"))

\* Slack /unsubscribe command: db.disablePlatform(userId, 'slack').
StartHandleSlackUnsubscribe(u) ==
  Begin(NewTask("disablePlatform", u, "slack", 0, 0, "dp_read"))

\* Telegram unsubscribe confirmation button.
StartHandleUnsubscribeConfirm(u) ==
  Begin(NewTask("handleUnsubscribeConfirm", u, "telegram", 0, 0, "uc_read"))

\* bot.catch on a 403 GrammyError: db.disablePlatform(userId, 'telegram').
StartBotCatch403(u) ==
  Begin(NewTask("disablePlatform", u, "telegram", 0, 0, "dp_read"))

\* Scheduler, after the dispatch loop: db.updateLastSentAt(userId, new Date())
\* for a subscriber of the snapshot read from the active index.
StartUpdateLastSentAt(u) ==
  /\ u \in getAllActiveSubscriptions(kv)
  /\ Begin(NewTask("updateLastSentAt", u, "none", 0, now, "ul_read"))

\* The kv.get a task awaits resolves.
KvGet(i) ==
  /\ tasks[i].pc \in ReadPcs
  /\ LET r == TaskStep(tasks[i], getSubscriptionByUserId(kv, tasks[i].user), now)
     IN  tasks' = [tasks EXCEPT ![i] = r.task]
  /\ UNCHANGED <<kv, started, now, authVars, srv, sch, fmt, msgs, bat, mig, dis>>

\* The atomic commit a task awaits succeeds.
KvCommit(i) ==
  /\ tasks[i].pc \in WritePcs
  /\ LET r == TaskStep(tasks[i], getSubscriptionByUserId(kv, tasks[i].user), now)
     IN  /\ tasks' = [tasks EXCEPT ![i] = r.task]
         /\ kv' = upsertSubscription(kv, r.write[1])
  /\ UNCHANGED <<started, now, authVars, srv, sch, fmt, msgs, bat, mig, dis>>

\* The atomic commit a task awaits throws (store unavailable): the handler
\* is abandoned with the exception.
KvCommitFail(i) ==
  /\ tasks[i].pc \in WritePcs
  /\ tasks' = [tasks EXCEPT ![i] = [@ EXCEPT !.pc = "failed", !.existing = <<>>,
                                             !.inner = <<>>]]
  /\ UNCHANGED <<kv, started, now, authVars, srv, sch, fmt, msgs, bat, mig, dis>>

Tick ==
  /\ now < MaxTime
  /\ now' = now + 1
  /\ UNCHANGED <<kv, tasks, started, authVars, srv, sch, fmt, msgs, bat, mig, dis>>

Next ==
  \/ \E u \in Users : StartHandleSubscribe(u)
  \/ \E u \in Users : StartHandleSlackSubscribe(u)
  \/ \E u \in Users : StartHandleSlackUnsubscribe(u)
  \/ \E u \in Users : StartHandleUnsubscribeConfirm(u)
  \/ \E u \in Users : StartBotCatch403(u)
  \/ \E u \in Users : StartUpdateLastSentAt(u)
  \/ \E i \in Tasks : KvGet(i)
  \/ \E i \in Tasks : KvCommit(i)
  \/ \E i \in Tasks : KvCommitFail(i)
  \/ Tick

Spec == Init /\ [][Next]_vars

(***************************************************************************)
(* Serial execution of handlers, used to state serializability: a task is  *)
(* run from its entry point to completion with no other task in between.   *)
(***************************************************************************)
EntryPc(op) ==
  CASE op = "setPlatformChatId" -> "spc_read"
    [] op = "disablePlatform" -> "dp_read"
    [] op = "updateLastSentAt" -> "ul_read"
    [] op = "handleSubscribe" -> "hs_read"
    [] op = "handleSlackSubscribe" -> "ss_read"
    [] op = "handleUnsubscribeConfirm" -> "uc_read"

RECURSIVE RunTask(_, _, _)
RunTask(t, store, time) ==
  IF t.pc = "done" THEN store
  ELSE LET r == TaskStep(t, getSubscriptionByUserId(store, t.user), time)
       IN  RunTask(r.task,
                   IF r.write # <<>> THEN upsertSubscription(store, r.write[1])
                                     ELSE store,
                   time)

\* The tasks order[1], order[2], ... run one after the other; task i reads the
\* clock value tm[i].
RECURSIVE RunOrder(_, _, _)
RunOrder(order, store, tm) ==
  IF order = <<>> THEN store
  ELSE LET i == Head(order)
       IN  RunOrder(Tail(order),
                    RunTask([tasks[i] EXCEPT !.pc = EntryPc(tasks[i].op)], store, tm[i]),
                    tm)

Orders(n) == {o \in [1..n -> 1..n] : \A a, b \in 1..n : a # b => o[a] # o[b]}

SerialOutcomes(n) ==
  {RunOrder(o, EmptyKv, tm)["subscriptions"] : o \in Orders(n), tm \in [1..n -> Times]}

AllDone == started >= 1 /\ \A i \in 1..started : tasks[i].pc = "done"

(***************************************************************************)
(* Claims about the record store.                                          *)
(***************************************************************************)
Primary(u) == kv["subscriptions"][u]
ActiveEntry(u) == kv["active_subscriptions"][u]

MirrorOf(rec) == IF rec # <<>> /\ Len(rec[1].enabled) > 0 THEN rec ELSE <<>>

\* C2: upsertSubscription is all-or-nothing.  Whenever a step changes any of
\* the three keys of a user, the step leaves the by-user index equal to the
\* new primary record and the active index equal to it exactly when it is
\* active, so a reader in the next state cannot see one without the other;
\* and a step in which a commit fails changes no key at all.
C2_UpsertAllOrNothing ==
  [][ /\ \A u \in Users :
           (\E ks \in KeySpaces : kv'[ks][u] # kv[ks][u]) =>
              /\ kv'["subscriptions_by_user"][u] = kv'["subscriptions"][u]
              /\ kv'["active_subscriptions"][u] = MirrorOf(kv'["subscriptions"][u])
      /\ (\E i \in Tasks : tasks[i].pc \in WritePcs /\ tasks'[i].pc = "failed") =>
            kv' = kv ]_vars

\* C2 witness: one handler has committed a record and another one's commit
\* has failed.
C2_Witness ==
  /\ \E i \in Tasks : tasks[i].pc = "failed"
  /\ \E u \in Users : Primary(u) # <<>> /\ ActiveEntry(u) = Primary(u)

\* C3: no lost update.  Once every started handler has run to completion,
\* the primary records equal those some serial order of the same handler
\* invocations produces.
C3_NoLostUpdate ==
  AllDone => kv["subscriptions"] \in SerialOutcomes(started)

\* C5: a platform tag is in a stored enabled list only if the stored
\* platforms map holds a chat id for it.
C5_EnabledOnlyWithChatId ==
  \A u \in Users :
    Primary(u) # <<>> =>
      \A k \in 1..Len(Primary(u)[1].enabled) :
        Primary(u)[1].platforms[Primary(u)[1].enabled[k]] # 0

(***************************************************************************)
(* Signed-request authenticator (Slack).                                   *)
(*                                                                         *)
(* Strings are sequences of character codes.  A header value is <<>> when  *)
(* the header is absent or empty (both are falsy).  The timestamp header   *)
(* is kept with what Number() makes of it: kind "num" for a text that      *)
(* parses to the finite number val, "nan" / "inf" for texts that do not.   *)
(***************************************************************************)
HexLen == 2

FIVE_MINUTES_IN_SECONDS == 60 * 5

Secrets == {1, 2}
ClockSec == 1000

Abs(x) == IF x < 0 THEN -x ELSE x

RECURSIVE Pow16(_)
Pow16(n) == IF n = 0 THEN 1 ELSE 16 * Pow16(n - 1)

\* a ^ b and a | b on non-negative integers
RECURSIVE BitXor(_, _)
BitXor(a, b) ==
  IF a = 0 THEN b
  ELSE IF b = 0 THEN a
  ELSE (((a % 2) + (b % 2)) % 2) + 2 * BitXor(a \div 2, b \div 2)

RECURSIVE BitOr(_, _)
BitOr(a, b) ==
  IF a = 0 THEN b
  ELSE IF b = 0 THEN a
  ELSE (IF (a % 2) + (b % 2) > 0 THEN 1 ELSE 0) + 2 * BitOr(a \div 2, b \div 2)

\* Character code of a hexadecimal digit: '0'..'9' are 48..57, 'a'..'f' 97..102.
HexChar(d) == IF d < 10 THEN 48 + d ELSE 87 + d

\* .digest('hex') / toString(16).padStart(2, '0'): n written with len digits.
RECURSIVE ToHex(_, _)
ToHex(n, len) ==
  IF len = 0 THEN <<>> ELSE Append(ToHex(n \div 16, len - 1), HexChar(n % 16))

\* The keyed digest of the base string 'v0:' + timestamp + ':' + body under
\* secret.  It stands for HMAC-SHA256: a function of the key and of every part
\* of the base string, of fixed width.
HmacHex(secret, ts, content) ==
  ToHex((secret * 89 + ts.val * 7 + (IF ts.kind = "num" THEN 0 ELSE 3)
           + content * 53 + 11) % Pow16(HexLen), HexLen)

\* `${version}=${expectedSignature}` with version 'v0'
ExpectedSignatureHeader(secret, ts, content) ==
  <<118, 48, 61>> \o HmacHex(secret, ts, content)

\* A string comparison that only accumulates the last character.
timingSafeEqualLastOnly(a, b) ==
  IF Len(a) # Len(b) THEN FALSE
  ELSE Len(a) = 0 \/ BitXor(a[Len(a)], b[Len(a)]) = 0

\* result |= a.charCodeAt(i) ^ b.charCodeAt(i) for i < n
RECURSIVE XorAccumulate(_, _, _)
XorAccumulate(a, b, n) ==
  IF n = 0 THEN 0 ELSE BitOr(XorAccumulate(a, b, n - 1), BitXor(a[n], b[n]))

\* timingSafeEqual of validation.ts
timingSafeEqual(a, b) ==
  IF Len(a) # Len(b) THEN FALSE ELSE XorAccumulate(a, b, Len(a)) = 0

\* The freshness test with the boundary excluded.
TimestampTooOldStrict(nowSec, timestampNum) ==
  Abs(nowSec - timestampNum) >= FIVE_MINUTES_IN_SECONDS

\* Math.abs(now - timestampNum) > FIVE_MINUTES_IN_SECONDS
TimestampTooOld(nowSec, timestampNum) ==
  Abs(nowSec - timestampNum) > FIVE_MINUTES_IN_SECONDS

\* The presence test without the signing secret.
MissingCredentialsNoSecret(ts, sig, signingSecret) ==
  ts.kind \in {"absent", "empty"} \/ sig = <<>>

\* !timestamp || !signature || !signingSecret
MissingCredentials(ts, sig, signingSecret) ==
  ts.kind \in {"absent", "empty"} \/ sig = <<>> \/ signingSecret = 0

\* Number.isFinite(Number(timestamp))
TimestampIsFinite(ts) == ts.kind = "num"

\* slackWebhookValidation(signingSecret)(req, res, next): the response status
\* sent, or "next" when the request is passed on.
slackWebhookValidation(signingSecret, r) ==
  IF MissingCredentials(r.ts, r.sig, signingSecret) THEN "401"
  ELSE IF ~TimestampIsFinite(r.ts) THEN "401"
  ELSE IF TimestampTooOld(r.nowSec, r.ts.val) THEN "401"
  ELSE IF ~r.body.isBuffer THEN "500"
  ELSE LET expectedSignatureHeader ==
             ExpectedSignatureHeader(signingSecret, r.ts, r.body.content)
       IN  IF Len(r.sig) # Len(expectedSignatureHeader) THEN "401"
           ELSE IF XorAccumulate(r.sig, expectedSignatureHeader, Len(r.sig)) # 0
                  THEN "401"
           ELSE IF ~r.body.validJson THEN "400"
           ELSE "next"

\* A middleware whose JSON.parse catch block sends 400 and does not return.
slackWebhookValidationCallsFallThrough(signingSecret, r) ==
  IF slackWebhookValidation(signingSecret, r) \in {"401", "500"}
    THEN <<slackWebhookValidation(signingSecret, r)>>
    ELSE IF ~r.body.validJson THEN <<"400", "next">> ELSE <<"next">>

\* slackWebhookValidation(signingSecret)(req, res, next): the calls it makes
\* on res (the status sent) and on next, in order.  Every res.status().send()
\* is followed by return, and next() is the last statement.
slackWebhookValidationCalls(signingSecret, r) ==
  IF MissingCredentials(r.ts, r.sig, signingSecret) THEN <<"401">>
  ELSE IF ~TimestampIsFinite(r.ts) THEN <<"401">>
  ELSE IF TimestampTooOld(r.nowSec, r.ts.val) THEN <<"401">>
  ELSE IF ~r.body.isBuffer THEN <<"500">>
  ELSE LET expectedSignatureHeader ==
             ExpectedSignatureHeader(signingSecret, r.ts, r.body.content)
       IN  IF Len(r.sig) # Len(expectedSignatureHeader) THEN <<"401">>
           ELSE IF XorAccumulate(r.sig, expectedSignatureHeader, Len(r.sig)) # 0
                  THEN <<"401">>
           ELSE IF ~r.body.validJson THEN <<"400">>
           ELSE <<"next">>

\* Slack.validateWebhook of services/slack/slack.ts (Express)
SlackValidateWebhook(signingSecret, r) ==
  IF MissingCredentials(r.ts, r.sig, signingSecret) THEN "false"
  ELSE IF ~TimestampIsFinite(r.ts) THEN "false"
  ELSE IF TimestampTooOld(r.nowSec, r.ts.val) THEN "false"
  ELSE "true"

\* Slack.validateWebhook of the Deno.serve adapter: crypto.suble is undefined,
\* so the signing call throws for every request that gets that far.
SlackValidateWebhookDeno(signingSecret, r) ==
  IF MissingCredentials(r.ts, r.sig, signingSecret) THEN "false"
  ELSE IF ~TimestampIsFinite(r.ts) THEN "false"
  ELSE IF TimestampTooOld(r.nowSec, r.ts.val) THEN "false"
  ELSE "throws"

(***************************************************************************)
(* SpecAuth: a sender builds a request, the authenticators answer.         *)
(***************************************************************************)
TsHeaders ==
  {[kind |-> k, val |-> 0] : k \in {"absent", "empty", "nan", "inf"}}
  \cup {[kind |-> "num", val |-> ClockSec + d] :
          d \in {-(FIVE_MINUTES_IN_SECONDS + 1), -FIVE_MINUTES_IN_SECONDS, 0,
                 FIVE_MINUTES_IN_SECONDS, FIVE_MINUTES_IN_SECONDS + 1}}

Bodies ==
  {[isBuffer |-> TRUE, validJson |-> TRUE, content |-> 1],
   [isBuffer |-> TRUE, validJson |-> FALSE, content |-> 2],
   [isBuffer |-> FALSE, validJson |-> TRUE, content |-> 1]}

Tampers == {"none", "omit", "flipFirst", "flipLast", "truncate", "extend"}

\* What arrives in x-slack-signature when the sender signs with the key it
\* has (0: the empty key) and the header is then altered on the way.
Tamper(sig, how) ==
  CASE how = "none" -> sig
    [] how = "omit" -> <<>>
    [] how = "flipFirst" -> [sig EXCEPT ![1] = BitXor(@, 1)]
    [] how = "flipLast" -> [sig EXCEPT ![Len(sig)] = BitXor(@, 1)]
    [] how = "truncate" -> SubSeq(sig, 1, Len(sig) - 1)
    [] how = "extend" -> Append(sig, 48)

Pending == [mw |-> "pending", express |-> "pending", deno |-> "pending",
            tse |-> "pending", calls |-> <<>>]

StoreIdle ==
  /\ kv = EmptyKv
  /\ msgs = NoMessages
  /\ MigrateIdle
  /\ DispatchIdle
  /\ BatchIdle
  /\ tasks = [i \in Tasks |-> IdleTask]
  /\ started = 0
  /\ now = 1

InitAuth ==
  /\ StoreIdle
  /\ ServeIdle
  /\ SchedIdle
  /\ FormatIdle
  /\ \E secret \in {0} \cup Secrets, signer \in {0} \cup Secrets, ts \in TsHeaders,
        body \in Bodies, how \in Tampers :
       areq = [secret |-> secret, nowSec |-> ClockSec, ts |-> ts,
               sig |-> Tamper(ExpectedSignatureHeader(signer, ts, body.content), how),
               body |-> body]
  /\ ares = Pending

\* The Express middleware runs on the request.
RunSlackWebhookValidation ==
  /\ ares.mw = "pending"
  /\ ares' = [ares EXCEPT !.mw = slackWebhookValidation(areq.secret, areq),
                          !.calls = slackWebhookValidationCalls(areq.secret, areq)]
  /\ UNCHANGED <<storeVars, areq, srv, sch, fmt, bat, mig, dis>>

\* The Express adapter's validateWebhook runs on the request.
RunSlackValidateWebhook ==
  /\ ares.express = "pending"
  /\ ares' = [ares EXCEPT !.express = SlackValidateWebhook(areq.secret, areq)]
  /\ UNCHANGED <<storeVars, areq, srv, sch, fmt, bat, mig, dis>>

\* The Deno adapter's validateWebhook runs on the request.
RunSlackValidateWebhookDeno ==
  /\ ares.deno = "pending"
  /\ ares' = [ares EXCEPT !.deno = SlackValidateWebhookDeno(areq.secret, areq)]
  /\ UNCHANGED <<storeVars, areq, srv, sch, fmt, bat, mig, dis>>

\* timingSafeEqual(received, expected) is evaluated.
RunTimingSafeEqual ==
  /\ ares.tse = "pending"
  /\ ares' = [ares EXCEPT !.tse =
       IF timingSafeEqual(areq.sig,
            ExpectedSignatureHeader(areq.secret, areq.ts, areq.body.content))
         THEN "true" ELSE "false"]
  /\ UNCHANGED <<storeVars, areq, srv, sch, fmt, bat, mig, dis>>

NextAuth ==
  \/ RunSlackWebhookValidation
  \/ RunSlackValidateWebhook
  \/ RunSlackValidateWebhookDeno
  \/ RunTimingSafeEqual

SpecAuth == InitAuth /\ [][NextAuth]_vars

(***************************************************************************)
(* Claims about the signed-request authenticator.                          *)
(***************************************************************************)
Expected == ExpectedSignatureHeader(areq.secret, areq.ts, areq.body.content)

\* Every condition of the signed-request scheme holds of areq.
FullyAuthentic ==
  /\ areq.ts.kind \notin {"absent", "empty"}
  /\ areq.sig # <<>>
  /\ areq.secret # 0
  /\ areq.ts.kind = "num"
  /\ Abs(areq.nowSec - areq.ts.val) <= FIVE_MINUTES_IN_SECONDS
  /\ areq.sig = Expected

\* C6: the request is passed on (the middleware calls next(), the Deno
\* adapter's validateWebhook returns true) only if timestamp header, signature
\* header and secret are present, the timestamp is a number within 300 s of
\* now, and the signature equals 'v0=' + hex(HMAC(secret, base string)).
C6_PassedOnlyIfAuthentic ==
  /\ ares.mw = "next" => FullyAuthentic
  /\ ares.deno = "true" => FullyAuthentic

\* C6 witness: both authenticators have answered a fully authentic request
\* and the middleware has passed it on.
C6_Witness == ares.mw = "next" /\ ares.deno # "pending" /\ FullyAuthentic

\* C7: with a correct signature (and a raw JSON body), a timestamp exactly
\* 300 s from now is accepted and one 301 s from now, past or future, is
\* rejected, by the middleware and by the Express adapter's header check.
C7_ReplayWindowBoundary ==
  (areq.secret # 0 /\ areq.ts.kind = "num" /\ areq.sig = Expected
     /\ areq.body.isBuffer /\ areq.body.validJson) =>
    /\ Abs(areq.nowSec - areq.ts.val) = 300 =>
         /\ ares.mw \in {"pending", "next"}
         /\ ares.express \in {"pending", "true"}
    /\ Abs(areq.nowSec - areq.ts.val) = 301 =>
         /\ ares.mw \in {"pending", "401"}
         /\ ares.express \in {"pending", "false"}

\* C7 witness: a correctly signed request exactly 300 s in the past has been
\* accepted by both.
C7_Witness ==
  /\ areq.nowSec - areq.ts.val = 300 /\ areq.ts.kind = "num"
  /\ areq.sig = Expected
  /\ ares.mw = "next" /\ ares.express = "true"

\* C8: a received signature that differs from the expected one (in any
\* character, or in length) is never passed on by the middleware, and
\* timingSafeEqual answers true exactly when its two strings are equal.
C8_MismatchRejected ==
  /\ (ares.mw # "pending" /\ areq.sig # Expected) => ares.mw # "next"
  /\ ares.tse # "pending" => (ares.tse = "true" <=> areq.sig = Expected)

\* C8 witness: a signature differing from the expected one in one bit of its
\* first character only (same length, same last character) was compared and
\* rejected with 401 at the signature check.
C8_Witness ==
  /\ areq.sig # <<>> /\ Len(areq.sig) = Len(Expected)
  /\ areq.sig[1] # Expected[1]
  /\ \A k \in 2..Len(Expected) : areq.sig[k] = Expected[k]
  /\ areq.secret # 0 /\ areq.ts.kind = "num" /\ areq.ts.val = areq.nowSec
  /\ areq.body.isBuffer
  /\ ares.mw = "401" /\ ares.tse = "false"

\* C9: the Slack adapter's validateWebhook answers true only for a request
\* whose signature header is the HMAC of its timestamp and raw body under the
\* signing secret; with a fresh timestamp and a non-empty wrong signature it
\* answers false.
C9_AdapterChecksSignature ==
  /\ ares.express = "true" => areq.sig = Expected
  /\ (ares.express # "pending" /\ areq.secret # 0 /\ areq.ts.kind = "num"
        /\ Abs(areq.nowSec - areq.ts.val) <= FIVE_MINUTES_IN_SECONDS
        /\ areq.sig # <<>> /\ areq.sig # Expected) => ares.express = "false"


(***************************************************************************)
(* The webhook server.  main.ts builds the services and serves every       *)
(* request from one Deno.serve handler; app/index.ts validates the         *)
(* required secrets before it builds anything.  A request is handled in    *)
(* one step.                                                               *)
(***************************************************************************)
MaxRequests == 3
MaxMissing == 1

RequiredSecrets == {"GOOGLE_API_KEY", "SLACK_BOT_TOKEN", "SLACK_SIGNING_SECRET",
                    "TELEGRAM_BOT_TOKEN", "TELEGRAM_WEBHOOK_SECRET"}

\* The value of TELEGRAM_WEBHOOK_SECRET when it is configured, and the values
\* the x-telegram-bot-api-secret-token header takes (<<>>: absent or empty).
TelegramSecretValue == <<1, 2>>
TelegramTokens == {<<>>, <<1, 2>>, <<1, 3>>, <<1>>}

\* this.webhookSecret = Deno.env.get('TELEGRAM_WEBHOOK_SECRET') || ''
WebhookSecret(configured) ==
  IF "TELEGRAM_WEBHOOK_SECRET" \in configured THEN TelegramSecretValue ELSE <<>>

\* validateRequiredSecrets(): the names of the required secrets with no value.
MissingSecrets(production, configured) ==
  LET required == IF production THEN RequiredSecrets ELSE {"GOOGLE_API_KEY"}
  IN  required \ configured

\* The earlier validateWebhook: no secret configured accepts every request.
TelegramValidateWebhookEarlier(production, webhookSecret, hasSubtle, token) ==
  IF webhookSecret = <<>> THEN "true"
  ELSE IF token # webhookSecret THEN "false" ELSE "true"

\* TelegramService.validateWebhook: "true", "false" or "throws".
TelegramValidateWebhook(production, webhookSecret, hasSubtle, token) ==
  IF production /\ webhookSecret = <<>> THEN "throws"
  ELSE IF webhookSecret # <<>>
    THEN IF token = <<>> \/ Len(token) # Len(webhookSecret) THEN "false"
         ELSE IF ~hasSubtle THEN "throws"
         ELSE IF token = webhookSecret THEN "true" ELSE "false"
  ELSE IF ~production THEN "true" ELSE "false"

Paths == {"/test", "/subscribe", "/unsubscribe", "/messages", "/telegram", "/"}
Methods == {"POST", "GET"}
Updates == {"subscribe", "start"}

\* An inbound request: user_id (0: absent), user_name and text present or not,
\* whether it carries a valid Slack signature, the Telegram secret-token
\* header, and the Telegram update in its body.
Requests ==
  [path : Paths, method : Methods, user_id : {0} \cup Users, user_name : BOOLEAN,
   text : BOOLEAN, slackSigned : BOOLEAN, token : TelegramTokens, update : Updates,
   from : Users]

\* db.store(user): kv.set(['users', user.id], user)
store(users, id, subscribed) == [users EXCEPT ![id] = <<[subscribed |-> subscribed]>>]

\* db.getById(id)
getById(users, id) == users[id]

\* What the handler did with a request: the response status, whether an
\* authenticator accepted the request, and the stores afterwards.
Outcome(status, authenticated, users, messages, handled, store_) ==
  [status |-> status, authenticated |-> authenticated, users |-> users,
   messages |-> messages, handled |-> handled, kv |-> store_]

\* telegram.handleWebhook(req): grammY dispatches the update to its handler.
handleWebhook(update, from, store_, time) ==
  IF update = "subscribe"
    THEN RunTask(NewTask("handleSubscribe", from, "telegram", TelegramChatId(from), 0,
                         "hs_read"), store_, time)
    ELSE store_

\* The Deno.serve handler of main.ts.
ServeHandler(r, s, store_, time, sendOk) ==
  IF r.path = "/subscribe" /\ r.method = "POST" THEN
    IF r.user_id # 0 /\ r.user_name THEN
      LET user == getById(s.users, r.user_id)
      IN  IF user # <<>> /\ user[1].subscribed
            THEN Outcome(200, FALSE, s.users, s.messages, s.handled, store_)
            ELSE Outcome(200, FALSE, store(s.users, r.user_id, TRUE), s.messages,
                         s.handled, store_)
    ELSE Outcome(200, FALSE, s.users, s.messages, s.handled, store_)
  ELSE IF r.path = "/unsubscribe" /\ r.method = "POST" THEN
    IF r.user_id # 0 /\ getById(s.users, r.user_id) # <<>>
      THEN Outcome(200, FALSE, store(s.users, r.user_id, FALSE), s.messages,
                   s.handled, store_)
      ELSE Outcome(200, FALSE, s.users, s.messages, s.handled, store_)
  ELSE IF r.path = "/messages" /\ r.method = "POST" THEN
    IF r.user_id # 0 /\ r.text
      THEN Outcome(IF sendOk THEN 200 ELSE 500, FALSE, s.users, s.messages + 1,
                   s.handled, store_)
      ELSE Outcome(200, FALSE, s.users, s.messages, s.handled, store_)
  ELSE IF r.path = "/telegram" THEN
    LET v == TelegramValidateWebhook(s.production, WebhookSecret(s.configured),
                                     s.subtleTimingSafeEqual, r.token)
    IN  IF v = "throws" THEN Outcome(500, FALSE, s.users, s.messages, s.handled, store_)
        ELSE IF v = "false"
          THEN Outcome(401, FALSE, s.users, s.messages, s.handled, store_)
        ELSE Outcome(200, TRUE, s.users, s.messages, s.handled + 1,
                     handleWebhook(r.update, r.from, store_, time))
  ELSE Outcome(200, FALSE, s.users, s.messages, s.handled, store_)

\* A process is launched from one of the two entry points, in an environment
\* with at most MaxMissing of the secrets left unconfigured.
InitServe ==
  /\ InitStore
  /\ AuthIdle
  /\ SchedIdle
  /\ FormatIdle
  /\ \E entry \in {"main.ts", "app/index.ts"}, production \in BOOLEAN,
        missing \in SUBSET RequiredSecrets, hasSubtle \in BOOLEAN :
       /\ Cardinality(missing) <= MaxMissing
       /\ srv = [phase |-> "booting", entry |-> entry, production |-> production,
                 configured |-> RequiredSecrets \ missing,
                 subtleTimingSafeEqual |-> hasSubtle,
                 users |-> [u \in Users |-> <<>>], messages |-> 0, handled |-> 0,
                 served |-> 0,
                 last |-> [path |-> "none", status |-> 0, authenticated |-> FALSE,
                           token |-> <<>>]]

\* boostrap() of main.ts: new TelegramService throws without TELEGRAM_BOT_TOKEN.
Boostrap ==
  /\ srv.phase = "booting" /\ srv.entry = "main.ts"
  /\ srv' = [srv EXCEPT !.phase =
       IF "TELEGRAM_BOT_TOKEN" \in srv.configured THEN "serving" ELSE "refused"]
  /\ UNCHANGED <<storeVars, authVars, sch, fmt, bat, mig, dis>>

\* startApiMode() of app/index.ts: throws on a missing required secret before
\* any service is built.
StartApiMode ==
  /\ srv.phase = "booting" /\ srv.entry = "app/index.ts"
  /\ srv' = [srv EXCEPT !.phase =
       IF MissingSecrets(srv.production, srv.configured) # {} THEN "refused"
       ELSE IF "TELEGRAM_BOT_TOKEN" \in srv.configured THEN "started" ELSE "refused"]
  /\ UNCHANGED <<storeVars, authVars, sch, fmt, bat, mig, dis>>

\* One request arrives at the Deno.serve handler and is answered.
Serve(r, sendOk) ==
  /\ srv.phase = "serving"
  /\ srv.served < MaxRequests
  /\ LET o == ServeHandler(r, srv, kv, now, sendOk)
     IN  /\ srv' = [srv EXCEPT !.users = o.users, !.messages = o.messages,
                               !.handled = o.handled, !.served = @ + 1,
                               !.last = [path |-> r.path, status |-> o.status,
                                         authenticated |-> o.authenticated,
                                         token |-> r.token]]
         /\ kv' = o.kv
  /\ UNCHANGED <<tasks, started, now, authVars, sch, fmt, msgs, bat, mig, dis>>

\* A request with nothing but a path and a method.
BareRequest(path, method) ==
  [path |-> path, method |-> method, user_id |-> 0, user_name |-> FALSE,
   text |-> FALSE, slackSigned |-> FALSE, token |-> <<>>, update |-> "start",
   from |-> 1]

\* Slack slash command /subscribe.
ServeSubscribe(method, user_id, user_name, signed) ==
  Serve([BareRequest("/subscribe", method) EXCEPT !.user_id = user_id,
           !.user_name = user_name, !.slackSigned = signed], TRUE)

\* Slack slash command /unsubscribe.
ServeUnsubscribe(method, user_id, signed) ==
  Serve([BareRequest("/unsubscribe", method) EXCEPT !.user_id = user_id,
           !.slackSigned = signed], TRUE)

\* Slack slash command /messages; the agent call or the Slack post may fail.
ServeMessages(method, user_id, text, signed, sendOk) ==
  Serve([BareRequest("/messages", method) EXCEPT !.user_id = user_id,
           !.text = text, !.slackSigned = signed], sendOk)

\* Telegram webhook delivery.
ServeTelegram(method, token, update, from) ==
  Serve([BareRequest("/telegram", method) EXCEPT !.token = token,
           !.update = update, !.from = from], TRUE)

\* Any other path.
ServeOther(path, method) ==
  Serve(BareRequest(path, method), TRUE)

NextServe ==
  \/ Boostrap
  \/ StartApiMode
  \/ \E m \in Methods, u \in {0} \cup Users, n \in BOOLEAN, g \in BOOLEAN :
       ServeSubscribe(m, u, n, g)
  \/ \E m \in Methods, u \in {0} \cup Users, g \in BOOLEAN : ServeUnsubscribe(m, u, g)
  \/ \E m \in Methods, u \in {0} \cup Users, x \in BOOLEAN, g \in BOOLEAN,
        ok \in BOOLEAN : ServeMessages(m, u, x, g, ok)
  \/ \E m \in Methods, k \in TelegramTokens, d \in Updates, u \in Users :
       ServeTelegram(m, k, d, u)
  \/ \E p \in {"/test", "/"}, m \in Methods : ServeOther(p, m)

SpecServe == InitServe /\ [][NextServe]_vars

(***************************************************************************)
(* Claims about the webhook server.                                        *)
(***************************************************************************)
\* C4: a step of the server that changes a store (the legacy users, the work
\* entries, the subscriptions) is the handling of a request that an
\* authenticator accepted, on every route; and a request answered 401 leaves
\* every store unchanged.
C4_MutationOnlyAfterAuthenticator ==
  [][ /\ (kv' # kv \/ srv'.users # srv.users \/ srv'.messages # srv.messages)
         => srv'.last.authenticated
      /\ (srv'.served # srv.served /\ srv'.last.status = 401)
         => (kv' = kv /\ srv'.users = srv.users /\ srv'.messages = srv.messages)
    ]_vars

\* C10: in production mode with TELEGRAM_WEBHOOK_SECRET not configured, no
\* request is ever handed to handleWebhook: the process refuses to start or
\* every /telegram request is turned away.
C10_TelegramFailsClosed ==
  (srv.production /\ "TELEGRAM_WEBHOOK_SECRET" \notin srv.configured)
    => /\ srv.handled = 0
       /\ srv.phase # "started"
       /\ srv.last.path = "/telegram" => srv.last.status \in {401, 500}

\* A production server with no webhook secret has answered a /telegram request.
C10_Witness ==
  /\ srv.production /\ "TELEGRAM_WEBHOOK_SECRET" \notin srv.configured
  /\ srv.phase = "serving"
  /\ srv.last.path = "/telegram"


\* C11: with TELEGRAM_WEBHOOK_SECRET configured, a /telegram request is
\* accepted (handed to handleWebhook) if and only if its secret-token header is
\* present and equal to the configured secret; a missing header, a header of
\* another length and a same-length header differing in a character are
\* rejected.
C11_TelegramAcceptedIffSecretMatches ==
  (srv.phase = "serving" /\ WebhookSecret(srv.configured) # <<>>
     /\ srv.last.path = "/telegram")
    => (srv.last.authenticated <=> srv.last.token = WebhookSecret(srv.configured))


(***************************************************************************)
(* The daily-summary scheduler: one run of the cron callback registered by *)
(* startDailyScheduler.  The store is seeded with subscriptions the        *)
(* handlers can leave behind; the work entries, the report generator and   *)
(* the messaging providers answer each call as they please.                *)
(***************************************************************************)
NumSubscribers == 3
MaxBatchSize == 2

Subscribers == 1..NumSubscribers

\* Stored subscriptions at the start of a run: both platforms enabled and
\* linked; telegram enabled before its chat id was stored, slack linked; and
\* telegram enabled with no chat id at all.
SeedKinds == {"both", "telegram_unlinked", "unlinked"}

SeedRank(kind) ==
  CASE kind = "both" -> 1 [] kind = "telegram_unlinked" -> 2 [] kind = "unlinked" -> 3

\* The seeded stores: along the key order the kinds only go up or only go down.
Monotone(kinds) ==
  \/ \A a, b \in DOMAIN kinds : a < b => SeedRank(kinds[a]) <= SeedRank(kinds[b])
  \/ \A a, b \in DOMAIN kinds : a < b => SeedRank(kinds[a]) >= SeedRank(kinds[b])

SeedSubscription(u, kind) ==
  CASE kind = "both" ->
         Subscription(u, [slack |-> u, telegram |-> TelegramChatId(u)],
                      <<"slack", "telegram">>, 0, 1, 0)
    [] kind = "telegram_unlinked" ->
         Subscription(u, [slack |-> u, telegram |-> 0],
                      <<"telegram", "slack">>, 0, 1, 0)
    [] kind = "unlinked" ->
         Subscription(u, NoPlatforms, <<"telegram">>, 0, 1, 0)

RECURSIVE SeedStore(_, _)
SeedStore(store_, kinds) ==
  IF kinds = <<>> THEN store_
  ELSE SeedStore(upsertSubscription(store_, SeedSubscription(Len(kinds), kinds[Len(kinds)])),
                 SubSeq(kinds, 1, Len(kinds) - 1))

\* kv.list({ prefix: ['active_subscriptions'] }): the values in key order.
RECURSIVE ListFrom(_, _)
ListFrom(index, u) ==
  IF u \notin DOMAIN index THEN <<>> ELSE index[u] \o ListFrom(index, u + 1)

\* Database.getAllActiveSubscriptions as the array it returns.
ActiveSubscriptionList(store_) == ListFrom(store_["active_subscriptions"], 1)

\* ProcessResult; reason "none" stands for an absent reason.
ProcessResult(success, userId, reason) ==
  [success |-> success, userId |-> userId, reason |-> reason]

\* One call of processSubscription: where it is suspended, the index k of the
\* platform being sent to, per platform what the provider answered (sent) and
\* whether the caller's catch block ran (caught), what the work-entry read
\* and the generator answered, whether lastSentAt was written, and the result
\* once returned.
NewProc ==
  [pc |-> "waiting", k |-> 0, messages |-> "none", generated |-> "none",
   sent |-> [p \in Platform |-> "none"], caught |-> [p \in Platform |-> FALSE],
   updated |-> FALSE,
   result |-> ProcessResult(FALSE, 0, "pending")]

\* A call whose result has been collected: its locals are gone.
Returned == [NewProc EXCEPT !.pc = "returned"]

\* A sendMessage that logs the failure and returns normally.
SendMessageSwallowing(answer) == "resolves"

\* Slack.sendMessage given the provider's answer: a response that is not ok
\* is thrown, logged and thrown again.
SlackSendMessage(answer) == IF answer = "ok" THEN "resolves" ELSE "throws"

\* TelegramService.sendMessage given the provider's answer: the error is
\* logged and thrown again.
TelegramSendMessage(answer) == IF answer = "ok" THEN "resolves" ELSE "throws"

\* bot.sendMessage(chatId, ...) of the adapter chosen for the platform.
BotSendMessage(platform, answer) ==
  IF platform = "slack" THEN SlackSendMessage(answer) ELSE TelegramSendMessage(answer)

\* The platform loop from index k on with no destination check.
SkipAbsentNever(sub, k, sent) == [k |-> k, sent |-> sent]

\* The platform loop from index k on: a platform with no chat id is logged
\* and skipped (continue); the loop stops at the first platform to send to.
RECURSIVE SkipAbsent(_, _, _)
SkipAbsent(sub, k, sent) ==
  IF k > Len(sub.enabled) THEN [k |-> k, sent |-> sent]
  ELSE IF sub.platforms[sub.enabled[k]] = 0
    THEN SkipAbsent(sub, k + 1, [sent EXCEPT ![sub.enabled[k]] = "skipped"])
    ELSE [k |-> k, sent |-> sent]

\* A platform loop after which lastSentAt is written only when a send went
\* through.
ResumeLoopDeliveredOnly(sub, proc, k) ==
  LET r == SkipAbsent(sub, k, proc.sent)
  IN  IF r.k > Len(sub.enabled) /\ \A p \in Platform : r.sent[p] # "ok"
        THEN [proc EXCEPT !.k = r.k, !.sent = r.sent, !.pc = "done",
                          !.result = ProcessResult(TRUE, sub.userId, "none")]
        ELSE [proc EXCEPT !.k = r.k, !.sent = r.sent,
                          !.pc = IF r.k > Len(sub.enabled) THEN "update" ELSE "send"]

\* processSubscription resumes the platform loop at index k.
ResumeLoop(sub, proc, k) ==
  LET r == SkipAbsent(sub, k, proc.sent)
  IN  [proc EXCEPT !.k = r.k, !.sent = r.sent,
                   !.pc = IF r.k > Len(sub.enabled) THEN "update" ELSE "send"]

\* A batch that is the whole rest of the list.
BatchOfUnbounded(s) == {j \in 1..Len(s.subscriptions) : s.i < j}

\* items.slice(i, i + batchSize), as indexes into the snapshot.
BatchOf(s) == {j \in 1..Len(s.subscriptions) : s.i < j /\ j <= s.i + s.batchSize}

\* batch.map(fn): every call of the batch runs up to its first await; with
\* no item left the loop ends and the callback logs its summary.
StartBatch(s) ==
  IF s.i >= Len(s.subscriptions) THEN [s EXCEPT !.phase = "done"]
  ELSE [s EXCEPT !.procs = [j \in DOMAIN s.procs |->
          IF j \in BatchOf(s) THEN [s.procs[j] EXCEPT !.pc = "get_messages"]
                              ELSE s.procs[j]]]

\* The summary counts of the cron callback counting only reason 'error'.
errorCountErrorOnly(results) ==
  Cardinality({j \in DOMAIN results : ~results[j].success /\ results[j].reason = "error"})

\* The summary counts of the cron callback.
successCount(results) == Cardinality({j \in DOMAIN results : results[j].success})
noMessagesCount(results) ==
  Cardinality({j \in DOMAIN results :
                 ~results[j].success /\ results[j].reason = "no_messages"})
errorCount(results) ==
  Cardinality({j \in DOMAIN results :
                 ~results[j].success /\ results[j].reason # "no_messages"})

InitSched ==
  /\ tasks = [i \in Tasks |-> IdleTask]
  /\ msgs = NoMessages
  /\ MigrateIdle
  /\ DispatchIdle
  /\ BatchIdle
  /\ started = 0
  /\ now = 1
  /\ AuthIdle
  /\ ServeIdle
  /\ FormatIdle
  /\ \E n \in 0..NumSubscribers, b \in 1..MaxBatchSize :
       \E kinds \in [1..n -> SeedKinds] :
         /\ Monotone(kinds)
         /\ kv = SeedStore([ks \in KeySpaces |-> [u \in Subscribers |-> <<>>]], kinds)
         /\ sch = [phase |-> "scheduled", batchSize |-> b, subscriptions |-> <<>>,
                   i |-> 0, procs |-> <<>>, results |-> <<>>, observed |-> <<>>,
                   listed |-> FALSE,
                   lastError |-> [user |-> 0, code |-> 0]]

\* The rejection of getAllActiveSubscriptions taken for an empty list.
ListingFailedContinues(s) == [s EXCEPT !.phase = "done"]

\* getAllActiveSubscriptions rejects inside the cron callback: nothing
\* catches it and the callback ends there.
ListingFailed(s) == [s EXCEPT !.phase = "aborted"]

\* The cron fires and the active subscriptions are listed; the first batch
\* starts at once.
CronListed ==
  /\ sch.phase = "scheduled"
  /\ LET subs == ActiveSubscriptionList(kv)
     IN  sch' = StartBatch([sch EXCEPT !.phase = "running", !.subscriptions = subs,
                                       !.procs = [j \in 1..Len(subs) |-> NewProc],
                                       !.listed = TRUE])
  /\ UNCHANGED <<storeVars, authVars, srv, fmt, bat, mig, dis>>

\* The cron fires and getAllActiveSubscriptions throws: the callback rejects.
CronListFails ==
  /\ sch.phase = "scheduled"
  /\ sch' = ListingFailed(sch)
  /\ UNCHANGED <<storeVars, authVars, srv, fmt, bat, mig, dis>>

\* processSubscription j returns result r.
Return(proc, r) == [proc EXCEPT !.pc = "done", !.result = r]

\* An error thrown inside processSubscription that nothing catches: the
\* promise of the call rejects.
Uncaught(proc, userId) == [proc EXCEPT !.pc = "rejected"]

\* The outer catch of processSubscription: logged, reason 'error'.
Caught(proc, userId) == Return(proc, ProcessResult(FALSE, userId, "error"))

\* What is remembered of a call once its batch has settled.
Observation(proc) ==
  [messages |-> proc.messages, generated |-> proc.generated,
   dispatched |-> \E p \in Platform : proc.sent[p] \in {"ok", "403", "failed"},
   updated |-> proc.updated]


\* getMessagesByUserId resolves (with or without entries) or throws.
GetMessages(j, answer) ==
  /\ sch.phase = "running"
  /\ sch.procs[j].pc = "get_messages"
  /\ LET sub == sch.subscriptions[j]
         proc == [sch.procs[j] EXCEPT !.messages = answer]
     IN  sch' = [sch EXCEPT !.procs[j] =
           CASE answer = "empty" ->
                  Return(proc, ProcessResult(FALSE, sub.userId, "no_messages"))
             [] answer = "some" -> [proc EXCEPT !.pc = "envoke"]
             [] answer = "throws" -> Caught(proc, sub.userId)]
  /\ UNCHANGED <<storeVars, authVars, srv, fmt, bat, mig, dis>>

\* A processSubscription that goes on to the platform loop whatever
\* agent.envoke answered.
EnvokeIgnoringFailure(j, answer) ==
  /\ sch.phase = "running"
  /\ sch.procs[j].pc = "envoke"
  /\ sch' = [sch EXCEPT !.procs[j] =
       ResumeLoop(sch.subscriptions[j], [sch.procs[j] EXCEPT !.generated = answer], 1)]
  /\ UNCHANGED <<storeVars, authVars, srv, fmt, bat, mig, dis>>

\* agent.envoke resolves with a report or with success: false and a message.
Envoke(j, answer) ==
  /\ sch.phase = "running"
  /\ sch.procs[j].pc = "envoke"
  /\ LET sub == sch.subscriptions[j]
         proc == [sch.procs[j] EXCEPT !.generated = answer]
     IN  sch' = [sch EXCEPT !.procs[j] =
           IF answer = "ok" THEN ResumeLoop(sub, proc, 1)
           ELSE Return(proc, ProcessResult(FALSE, sub.userId, "Failed to parse response"))]
  /\ UNCHANGED <<storeVars, authVars, srv, fmt, bat, mig, dis>>

\* The provider answers the send to platform enabled[k]; an error thrown by
\* sendMessage is caught and logged, and the loop goes on.
Send(j, answer) ==
  /\ sch.phase = "running"
  /\ sch.procs[j].pc = "send"
  /\ LET sub == sch.subscriptions[j]
         proc == sch.procs[j]
         platform == sub.enabled[proc.k]
         thrown == BotSendMessage(platform, answer) = "throws"
     IN  sch' = [sch EXCEPT !.procs[j] =
           ResumeLoop(sub, [proc EXCEPT !.sent[platform] = answer,
                                        !.caught[platform] = thrown], proc.k + 1)]
  /\ UNCHANGED <<storeVars, authVars, srv, fmt, bat, mig, dis>>

\* db.updateLastSentAt(sub.userId, new Date()) resolves.
UpdateLastSentAt(j) ==
  /\ sch.phase = "running"
  /\ sch.procs[j].pc = "update"
  /\ LET sub == sch.subscriptions[j]
     IN  /\ kv' = RunTask(NewTask("updateLastSentAt", sub.userId, "none", 0, now,
                                  "ul_read"), kv, now)
         /\ sch' = [sch EXCEPT !.procs[j] =
              Return([sch.procs[j] EXCEPT !.updated = TRUE],
                     ProcessResult(TRUE, sub.userId, "none"))]
  /\ UNCHANGED <<tasks, started, now, authVars, srv, fmt, msgs, bat, mig, dis>>

\* db.updateLastSentAt throws: the outer catch returns reason 'error'.
UpdateLastSentAtFails(j) ==
  /\ sch.phase = "running"
  /\ sch.procs[j].pc = "update"
  /\ sch' = [sch EXCEPT !.procs[j] = Caught(sch.procs[j], sch.subscriptions[j].userId)]
  /\ UNCHANGED <<storeVars, authVars, srv, fmt, bat, mig, dis>>

\* Promise.all of the batch resolves: results.push(...batchResults), i +=
\* batchSize, and the next batch starts or the summary is logged.  What was
\* observed of the batch's calls is kept until this moment only.
BatchSettled ==
  /\ sch.phase = "running"
  /\ BatchOf(sch) # {}
  /\ \A j \in BatchOf(sch) : sch.procs[j].pc = "done"
  /\ LET n == Cardinality(BatchOf(sch))
         batchResults == [j \in 1..n |-> sch.procs[sch.i + j].result]
         returned == [j \in DOMAIN sch.procs |->
                        IF j \in BatchOf(sch) THEN Returned ELSE sch.procs[j]]
     IN  sch' = StartBatch([sch EXCEPT !.results = @ \o batchResults,
                                       !.observed = @ \o
                                         [j \in 1..n |-> Observation(sch.procs[sch.i + j])],
                                       !.i = @ + sch.batchSize,
                                       !.procs = returned])
  /\ UNCHANGED <<storeVars, authVars, srv, fmt, bat, mig, dis>>

\* Error codes of a failed reply: 403 (the user blocked the bot), another
\* GrammyError code, and 0 for an error that is no GrammyError.
ErrorCodes == {403, 400, 0}

\* bot.catch: a 403 GrammyError disables telegram for the sender; any other
\* error is only logged.
BotCatch(store_, userId, code) ==
  IF code = 403
    THEN RunTask(NewTask("disablePlatform", userId, "telegram", 0, 0, "dp_read"),
                 store_, 1)
    ELSE store_

\* A handler's reply to user u fails and bot.catch runs.  Replies are
\* followed on the seeded store, when the run has ended at the listing.
HandlerErrorCaught(u, code) ==
  /\ sch.phase = "aborted"
  /\ kv' = BotCatch(kv, u, code)
  /\ sch' = [sch EXCEPT !.lastError = [user |-> u, code |-> code]]
  /\ UNCHANGED <<tasks, started, now, authVars, srv, fmt, msgs, bat, mig, dis>>

NextSched ==
  \/ \E u \in Subscribers, code \in ErrorCodes : HandlerErrorCaught(u, code)
  \/ CronListed
  \/ CronListFails
  \/ \E j \in 1..Len(sch.procs), a \in {"empty", "some", "throws"} : GetMessages(j, a)
  \/ \E j \in 1..Len(sch.procs), a \in {"ok", "fail"} : Envoke(j, a)
  \/ \E j \in 1..Len(sch.procs), a \in {"ok", "403", "failed"} : Send(j, a)
  \/ \E j \in 1..Len(sch.procs) : UpdateLastSentAt(j)
  \/ \E j \in 1..Len(sch.procs) : UpdateLastSentAtFails(j)
  \/ BatchSettled

SpecSched == InitSched /\ [][NextSched]_vars


(***************************************************************************)
(* Claims about send failures and the fan-out run.                         *)
(***************************************************************************)
StoredSubscription(u) == kv["subscriptions"][u]

\* C12: once a send to subscriber X on platform P has failed with a 403, on
\* the handlers' reply path (bot.catch) as well as in the scheduled fan-out
\* (the call of processSubscription has returned), P is not in X's stored
\* enabled list and X is in the active index iff a platform is still enabled.
C12_Forbidden403DisablesPlatform ==
  /\ \A j \in 1..Len(sch.procs) : \A p \in Platform :
       (sch.procs[j].pc = "done" /\ sch.procs[j].sent[p] = "403")
         => LET u == sch.subscriptions[j].userId
            IN  /\ StoredSubscription(u) # <<>>
                /\ ~Includes(StoredSubscription(u)[1].enabled, p)
                /\ (kv["active_subscriptions"][u] # <<>>
                      <=> Len(StoredSubscription(u)[1].enabled) > 0)
  /\ (sch.lastError.code = 403 /\ StoredSubscription(sch.lastError.user) # <<>>)
       => LET u == sch.lastError.user
          IN  /\ ~Includes(StoredSubscription(u)[1].enabled, "telegram")
              /\ (kv["active_subscriptions"][u] # <<>>
                    <=> Len(StoredSubscription(u)[1].enabled) > 0)

\* What the store says of every subscriber's enabled list and platforms map.
EnabledAndPlatforms(store_) ==
  [u \in DOMAIN store_["subscriptions"] |->
     IF store_["subscriptions"][u] = <<>> THEN <<>>
     ELSE <<store_["subscriptions"][u][1].enabled, store_["subscriptions"][u][1].platforms>>]

IsA(o) == o.messages = "empty"
IsB(o) == o.messages = "some" /\ o.generated = "ok" /\ o.updated
IsC(o) == o.messages = "some" /\ o.generated = "fail"

ScenarioABC ==
  /\ sch.phase = "done"
  /\ Len(sch.observed) = 3
  /\ \E a, b, c \in 1..3 :
       IsA(sch.observed[a]) /\ IsB(sch.observed[b]) /\ IsC(sch.observed[c])

\* Platform p is enabled for sub and has a destination.
Linked(sub, p) == Includes(sub.enabled, p) /\ sub.platforms[p] # 0

\* C14: a completed run over A, B and C, in any order in the snapshot and
\* with any batch size >= 1, counts success = 1, no_messages = 1, error = 1,
\* and a report was dispatched for B alone (for B whenever B has a linked
\* platform).
C14_FanoutCountsABC ==
  ScenarioABC =>
    /\ successCount(sch.results) = 1
    /\ noMessagesCount(sch.results) = 1
    /\ errorCount(sch.results) = 1
    /\ \A j \in 1..3 :
         /\ sch.observed[j].dispatched => IsB(sch.observed[j])
         /\ (IsB(sch.observed[j]) /\ \E p \in Platform : Linked(sch.subscriptions[j], p))
              => sch.observed[j].dispatched

\* The scenario has run with C first, A second and B last, two at a time, and
\* B's report went out.
C14_Witness ==
  /\ ScenarioABC
  /\ sch.batchSize = 2
  /\ IsC(sch.observed[1]) /\ IsA(sch.observed[2]) /\ IsB(sch.observed[3])
  /\ sch.observed[3].dispatched

InFlight == {j \in 1..Len(sch.procs) : sch.procs[j].pc \in {"get_messages", "envoke", "send", "update"}}

\* The number of the batch position j falls in.
BatchIndex(j) == (j - 1) \div sch.batchSize

\* C16: with batch size n >= 1 at most n subscribers are being processed at
\* any moment, and a subscriber of a later batch has not started while a
\* subscriber of an earlier batch has not finished.
C16_BoundedConcurrency ==
  sch.phase = "running" =>
    /\ Cardinality(InFlight) <= sch.batchSize
    /\ \A j, l \in 1..Len(sch.procs) :
         (BatchIndex(j) < BatchIndex(l) /\ sch.procs[l].pc # "waiting")
           => sch.procs[j].pc = "returned"

\* Two subscribers are in flight together, a third is waiting for their batch.
C16_Witness ==
  /\ sch.phase = "running"
  /\ sch.batchSize = 2
  /\ Cardinality(InFlight) = 2
  /\ Len(sch.procs) = 3 /\ sch.procs[3].pc = "waiting"


\* A send was attempted on platform p by call proc.
Attempted(proc, p) == proc.sent[p] \in {"ok", "403", "failed"}

\* C17: a platform that is enabled with no destination chat id never gets a
\* send attempt, and once the platform loop of a subscriber is over every
\* enabled platform that has a chat id has been attempted.
C17_NoSendWithoutDestination ==
  \A j \in 1..Len(sch.procs) : \A p \in Platform :
    LET sub == sch.subscriptions[j]
        proc == sch.procs[j]
    IN  /\ (Includes(sub.enabled, p) /\ sub.platforms[p] = 0) => ~Attempted(proc, p)
        /\ (proc.generated = "ok" /\ proc.pc \in {"update", "done"} /\ Linked(sub, p))
             => Attempted(proc, p)

\* A subscriber whose first enabled platform has no chat id: that platform
\* was skipped and the next one was sent to.
C17_Witness ==
  \E j \in 1..Len(sch.procs) :
    /\ sch.subscriptions[j].enabled = <<"telegram", "slack">>
    /\ sch.subscriptions[j].platforms["telegram"] = 0
    /\ sch.procs[j].sent = [slack |-> "ok", telegram |-> "skipped"]

\* C18: when a subscriber has a work entry and its report is generated, the
\* update of lastSentAt is reached only after every enabled platform was
\* attempted or skipped, and it is reached whatever the sends answered; once
\* it has gone through, lastSentAt is stored and the result is a success.
C18_LastSentAtAfterAllPlatforms ==
  \A j \in 1..Len(sch.procs) :
    LET sub == sch.subscriptions[j]
        proc == sch.procs[j]
    IN  /\ proc.pc \in {"update", "done"} /\ proc.generated = "ok"
          => \A p \in Platform : Includes(sub.enabled, p) => proc.sent[p] # "none"
        /\ (proc.pc = "done" /\ proc.generated = "ok")
          => \/ proc.updated /\ proc.result = ProcessResult(TRUE, sub.userId, "none")
                /\ StoredSubscription(sub.userId)[1].lastSentAt = now
             \/ ~proc.updated /\ proc.result = ProcessResult(FALSE, sub.userId, "error")
        /\ proc.updated => proc.generated = "ok"

\* lastSentAt was written and the subscriber counted a success although both
\* of its sends failed.
C18_Witness ==
  \E j \in 1..Len(sch.procs) :
    /\ sch.procs[j].pc = "done" /\ sch.procs[j].updated
    /\ sch.procs[j].sent = [slack |-> "failed", telegram |-> "403"]
    /\ sch.procs[j].result.success
    /\ StoredSubscription(sch.subscriptions[j].userId)[1].lastSentAt = now

MaxTextLen == 5
MaxChunkLen == 3

\* The strings splitMessage is called with: a line break, a blank and a
\* letter are the characters it tells apart.
Texts == UNION {[1..n -> {"\n", " ", "a"}] : n \in 0..MaxTextLen}

\* String.prototype.lastIndexOf(ch, fromIndex): the greatest index <=
\* fromIndex holding ch, or -1.
lastIndexOf(text, ch, fromIndex) ==
  LET hits == {i \in 0..(Len(text) - 1) : i <= fromIndex /\ text[i + 1] = ch}
  IN  IF hits = {} THEN -1 ELSE CHOOSE i \in hits : \A h \in hits : h <= i

\* String.prototype.trim(): the text between its first and its last
\* character that is not white space.
trim(text) ==
  LET inked == {i \in 1..Len(text) : text[i] \notin {"\n", " "}}
  IN  IF inked = {} THEN <<>>
      ELSE SubSeq(text, CHOOSE i \in inked : \A h \in inked : i <= h,
                        CHOOSE i \in inked : \A h \in inked : h <= i)

\* A cut at the maximum length wherever the newlines are.
CutAtMidLine(text, maxLength) == maxLength

\* Where one iteration of splitMessage cuts: at the last newline at or before
\* maxLength when that index is > 0, else at maxLength.
CutAt(text, maxLength) ==
  LET splitAt == lastIndexOf(text, "\n", maxLength)
  IN  IF splitAt > 0 THEN splitAt ELSE maxLength

\* The while loop of splitMessage with the final push: the chunks, and the
\* text that was left at the start of each iteration.
RECURSIVE SplitLoop(_, _, _, _)
SplitLoop(text, maxLength, messages, remainders) ==
  IF Len(text) > maxLength
    THEN LET cut == CutAt(text, maxLength)
         IN  SplitLoop(trim(SubSeq(text, cut + 1, Len(text))), maxLength,
                       Append(messages, SubSeq(text, 1, cut)), Append(remainders, text))
    ELSE [messages |-> IF text # <<>> THEN Append(messages, text) ELSE messages,
          remainders |-> remainders]

\* TelegramFormatter.splitMessage
splitMessage(text, maxLength) == SplitLoop(text, maxLength, <<>>, <<>>).messages

(***************************************************************************)
(* The two formatters.  A string is a sequence of tokens: a character, or  *)
(* a literal of the template taken whole (a label, the bullet, "N/A").     *)
(***************************************************************************)
MaxTasks == 1

\* TaskItem[] values: the project is a name, the task a name, a character
\* HTML escapes, or blank.
TaskLists ==
  UNION {[1..n -> [project : {"a"}, task : {"a", "<", " "}]] : n \in 0..MaxTasks}

\* AgentResponse: a DailyWorkReport, or a failure (data absent).
Responses ==
  [success : {TRUE}, completed : TaskLists, incomplete : TaskLists, planned : TaskLists]
  \cup {[success |-> FALSE, completed |-> <<>>, incomplete |-> <<>>, planned |-> <<>>]}

\* Array.prototype.join(sep) of strings.
RECURSIVE Join(_, _)
Join(lines, sep) ==
  IF lines = <<>> THEN <<>>
  ELSE IF Len(lines) = 1 THEN lines[1]
       ELSE lines[1] \o sep \o Join(Tail(lines), sep)

\* TelegramFormatter.escapeHtml of a one-character text.
escapeHtml(text) ==
  CASE text = "&" -> "&amp;" [] text = "<" -> "&lt;" [] text = ">" -> "&gt;"
    [] OTHER -> text

\* A buildContent that leaves an empty section out.
buildContentOmitEmpty(response) ==
  IF ~response.success THEN <<"<b>Error</b>", "\n", "\n", "Failed to generate report.">>
  ELSE LET formatTasks(items, label) ==
             IF items = <<>> THEN <<>>
             ELSE <<"<b>" \o label \o "</b>", "\n">>
                  \o Join([k \in 1..Len(items) |->
                             <<"[bullet] ", escapeHtml(items[k].project), ": ",
                               escapeHtml(items[k].task)>>], <<"\n">>)
                  \o <<"\n">>
       IN  formatTasks(response.completed, "1.") \o formatTasks(response.incomplete, "2.")
           \o formatTasks(response.planned, "3.")

\* TelegramFormatter.buildContent
buildContent(response) ==
  IF ~response.success THEN <<"<b>Error</b>", "\n", "\n", "Failed to generate report.">>
  ELSE LET formatTasks(items, label) ==
             IF items = <<>> THEN <<"<b>" \o label \o "</b>", "\n", "[bullet] ", "N/A", "\n">>
             ELSE <<"<b>" \o label \o "</b>", "\n">>
                  \o Join([k \in 1..Len(items) |->
                             <<"[bullet] ", escapeHtml(items[k].project), ": ",
                               escapeHtml(items[k].task)>>], <<"\n">>)
                  \o <<"\n">>
       IN  formatTasks(response.completed, "1.") \o formatTasks(response.incomplete, "2.")
           \o formatTasks(response.planned, "3.")

\* SlackFormatter.format
SlackFormat(response) ==
  IF ~response.success THEN <<"Error generating report">>
  ELSE LET formatTasks(items) ==
             IF items = <<>> THEN <<"  [bullet]  ", "N/A">>
             ELSE Join([k \in 1..Len(items) |->
                          IF trim(<<items[k].task>>) # <<>>
                            THEN <<"  [bullet]  ", items[k].project, ": ">> \o trim(<<items[k].task>>)
                            ELSE <<"  [bullet]  ", items[k].project>>], <<"\n">>)
       IN  <<"1.", "\n">> \o formatTasks(response.completed) \o <<"\n", "2.", "\n">>
           \o formatTasks(response.incomplete) \o <<"\n", "3.", "\n">>
           \o formatTasks(response.planned)

InitFormat ==
  /\ InitStore
  /\ AuthIdle
  /\ ServeIdle
  /\ SchedIdle
  /\ \/ \E text \in Texts, maxLength \in 1..MaxChunkLen :
          fmt = [phase |-> "called", text |-> text, maxLength |-> maxLength,
                 messages |-> <<>>, remainders |-> <<>>,
                 response |-> [success |-> FALSE, completed |-> <<>>,
                               incomplete |-> <<>>, planned |-> <<>>],
                 formatted |-> {}, slack |-> <<>>, telegram |-> <<>>]
     \/ \E response \in Responses :
          fmt = [phase |-> "format", text |-> <<>>, maxLength |-> 0,
                 messages |-> <<>>, remainders |-> <<>>, response |-> response,
                 formatted |-> {}, slack |-> <<>>, telegram |-> <<>>]

\* slackFormatter.format(response) returns.
RunSlackFormat ==
  /\ fmt.phase = "format"
  /\ "slack" \notin fmt.formatted
  /\ fmt' = [fmt EXCEPT !.formatted = @ \cup {"slack"},
                        !.slack = SlackFormat(fmt.response)]
  /\ UNCHANGED <<storeVars, authVars, srv, sch, bat, mig, dis>>

\* telegramFormatter.format(response) returns: the content split at 4096.
RunTelegramFormat ==
  /\ fmt.phase = "format"
  /\ "telegram" \notin fmt.formatted
  /\ fmt' = [fmt EXCEPT !.formatted = @ \cup {"telegram"},
                        !.telegram = splitMessage(buildContent(fmt.response), 4096)]
  /\ UNCHANGED <<storeVars, authVars, srv, sch, bat, mig, dis>>

\* splitMessage(text, maxLength) returns.
RunSplitMessage ==
  /\ fmt.phase = "called"
  /\ fmt' = [fmt EXCEPT !.phase = "returned",
                        !.messages = splitMessage(fmt.text, fmt.maxLength),
                        !.remainders =
                          SplitLoop(fmt.text, fmt.maxLength, <<>>, <<>>).remainders]
  /\ UNCHANGED <<storeVars, authVars, srv, sch, bat, mig, dis>>

NextFormat == RunSplitMessage \/ RunSlackFormat \/ RunTelegramFormat

SpecFormat == InitFormat /\ [][NextFormat]_vars

\* C20: every chunk splitMessage returns is non-empty and no longer than
\* maxLength; and at an iteration whose remaining text is longer than
\* maxLength and holds a newline at an index in 1..maxLength, the chunk pushed
\* is the text up to the last such newline.
C20_SplitAtNewline ==
  fmt.phase = "returned" =>
    /\ \A c \in 1..Len(fmt.messages) :
         Len(fmt.messages[c]) >= 1 /\ Len(fmt.messages[c]) <= fmt.maxLength
    /\ \A c \in 1..Len(fmt.remainders) :
         LET rest == fmt.remainders[c]
             at == {i \in 1..fmt.maxLength : i < Len(rest) /\ rest[i + 1] = "\n"}
         IN  /\ Len(rest) > fmt.maxLength
             /\ at # {} =>
                  \E i \in at : /\ \A h \in at : h <= i
                                /\ fmt.messages[c] = SubSeq(rest, 1, i)

\* "a\na a" split at 3: the first chunk ends at the newline at index 1, not
\* after the third character.
C20_Witness ==
  /\ fmt.phase = "returned"
  /\ fmt.maxLength = 3
  /\ fmt.text = <<"a", "\n", "a", " ", "a">>
  /\ fmt.messages = <<<<"a">>, <<"a", " ", "a">>>>

\* C21: the chunks splitMessage returns, joined again with the separator
\* removed at each split point put back (one newline, or nothing where the
\* text was cut inside a line), are the original text: at each iteration the
\* text left is the chunk pushed, at most one newline, and the text left for
\* the next iteration (or the last chunk).
C21_SplitRoundTrip ==
  fmt.phase = "returned" =>
    LET n == Len(fmt.remainders)
        Rest(c) == IF c < n THEN fmt.remainders[c + 1]
                   ELSE IF Len(fmt.messages) > n THEN fmt.messages[n + 1] ELSE <<>>
    IN  /\ fmt.text = IF n > 0 THEN fmt.remainders[1] ELSE Rest(0)
        /\ \A c \in 1..n :
             \E sep \in {<<>>, <<"\n">>} :
               fmt.remainders[c] = fmt.messages[c] \o sep \o Rest(c)

\* C22: for a successful report, the text of the Slack formatter and the
\* chunks of the Telegram formatter hold the labels of the three sections
\* once each, completed before incomplete before planned, and the line after
\* the label of a section whose list is empty is the bullet with "N/A".
C22_ThreeSectionsInOrder ==
  (fmt.phase = "format" /\ fmt.response.success) =>
    LET lists == <<fmt.response.completed, fmt.response.incomplete, fmt.response.planned>>
        Sections(content, labels, bullet) ==
          \E at \in [1..3 -> 1..Len(content)] :
            /\ at[1] < at[2] /\ at[2] < at[3]
            /\ \A i \in 1..Len(content) :
                 (content[i] \in {labels[1], labels[2], labels[3]}) <=> (\E k \in 1..3 : at[k] = i)
            /\ \A k \in 1..3 :
                 /\ content[at[k]] = labels[k]
                 /\ lists[k] = <<>> =>
                      /\ at[k] + 3 <= Len(content)
                      /\ SubSeq(content, at[k] + 1, at[k] + 3) = <<"\n", bullet, "N/A">>
    IN  /\ "slack" \in fmt.formatted =>
              Sections(fmt.slack, <<"1.", "2.", "3.">>, "  [bullet]  ")
        /\ "telegram" \in fmt.formatted =>
              /\ Len(fmt.telegram) = 1
              /\ Sections(fmt.telegram[1], <<"<b>1.</b>", "<b>2.</b>", "<b>3.</b>">>, "[bullet] ")

\* Both formatters have rendered a report whose incomplete list is empty
\* and whose other two lists are not.
C22_Witness ==
  /\ fmt.phase = "format"
  /\ fmt.formatted = {"slack", "telegram"}
  /\ fmt.response.success
  /\ fmt.response.incomplete = <<>>
  /\ fmt.response.completed # <<>> /\ fmt.response.planned # <<>>

\* C23: the commit of an unsubscribe on platform P (handleUnsubscribeConfirm
\* for telegram, the disablePlatform of handleSlackUnsubscribe for slack)
\* changes the stored record of the user only by removing P from enabled:
\* the other platforms enabled just before the commit are enabled after it,
\* the platforms map is the same, and the user is in the active index
\* afterwards iff a platform is left in enabled.
C23_UnsubscribeRemovesOnlyP ==
  [][ \A i \in Tasks :
        ( /\ \/ tasks[i].op = "handleUnsubscribeConfirm" /\ tasks[i].pc = "uc_write"
             \/ tasks[i].op = "disablePlatform" /\ tasks[i].platform = "slack"
                /\ tasks[i].pc = "dp_write"
          /\ tasks'[i].pc = "done" )
        => LET u == tasks[i].user
               before == kv["subscriptions"][u]
               after == kv'["subscriptions"][u]
           IN  /\ before # <<>> /\ after # <<>>
               /\ after[1].enabled = FilterOut(before[1].enabled, tasks[i].platform)
               /\ after[1].platforms = before[1].platforms
               /\ (kv'["active_subscriptions"][u] # <<>>) <=> (Len(after[1].enabled) > 0)
    ]_vars

(***************************************************************************)
(* SpecMessages: the writers of work entries against the entry store.      *)
(***************************************************************************)
\* A work entry arrives (the /messages route of main.ts, handleMessage of
\* the Telegram bot) or the agent loop saves the state of a new task: the
\* entry gets a fresh id (crypto.randomUUID(), a new task id) and the
\* current date.
StoreNewMessage(userId, content) ==
  /\ \E id \in 1..MaxMessages : msgs.messages[id] = <<>>
  /\ LET id == CHOOSE id \in 1..MaxMessages :
                 /\ msgs.messages[id] = <<>>
                 /\ \A o \in 1..MaxMessages : msgs.messages[o] = <<>> => id <= o
     IN  msgs' = storeDailyWorkMessage(msgs,
                   [id |-> id, userId |-> userId, content |-> content, date |-> now])
  /\ UNCHANGED <<kv, tasks, started, now, authVars, srv, sch, fmt, bat, mig, dis>>

\* MainLoopAgent.saveState of a task saved before: the same id and owner,
\* the date of the save.
SaveState(id) ==
  /\ msgs.messages[id] # <<>>
  /\ msgs.messages[id][1].content = "state"
  /\ msgs.messages[id][1].date < now
  /\ msgs' = storeDailyWorkMessage(msgs, [msgs.messages[id][1] EXCEPT !.date = now])
  /\ UNCHANGED <<kv, tasks, started, now, authVars, srv, sch, fmt, bat, mig, dis>>

NextMessages ==
  \/ \E u \in Users, content \in {"text", "state"} : StoreNewMessage(u, content)
  \/ \E id \in 1..MaxMessages : SaveState(id)
  \/ Tick

SpecMessages == Init /\ [][NextMessages]_vars

\* C27: getMessagesByUserId(u) returns every stored entry whose owner is u
\* once and nothing else, by date ascending; and an entry is under its
\* primary key exactly when the same value is under its owner's index key.
C27_EntriesByOwnerSorted ==
  /\ \A u \in Users :
       LET r == getMessagesByUserId(msgs, u)
       IN  /\ \A id \in 1..MaxMessages :
                (msgs.messages[id] # <<>> /\ msgs.messages[id][1].userId = u)
                  => Cardinality({k \in 1..Len(r) : r[k] = msgs.messages[id][1]}) = 1
           /\ \A k \in 1..Len(r) :
                r[k].userId = u /\ msgs.messages[r[k].id] = <<r[k]>>
           /\ \A k, l \in 1..Len(r) : k < l => r[k].date <= r[l].date
  /\ \A u \in Users, id \in 1..MaxMessages :
       /\ msgs.messages_by_user[<<u, id>>] # <<>>
            => msgs.messages_by_user[<<u, id>>] = msgs.messages[id]
       /\ (msgs.messages[id] # <<>> /\ msgs.messages[id][1].userId = u)
            => msgs.messages_by_user[<<u, id>>] = msgs.messages[id]

\* One owner has an older entry under a later key than a newer one (a task
\* state saved again), and the other owner has an entry too.
C27_Witness ==
  /\ \E u \in Users, a, b \in 1..MaxMessages :
       /\ a < b
       /\ msgs.messages[a] # <<>> /\ msgs.messages[b] # <<>>
       /\ msgs.messages[a][1].userId = u /\ msgs.messages[b][1].userId = u
       /\ msgs.messages[a][1].date > msgs.messages[b][1].date
       /\ \E c \in 1..MaxMessages :
            msgs.messages[c] # <<>> /\ msgs.messages[c][1].userId # u

(***************************************************************************)
(* SpecDb: the methods of Database called directly, one call per task,     *)
(* against a store that is empty or holds the record of user 1.            *)
(***************************************************************************)
InitDb ==
  /\ kv \in {EmptyKv} \cup {upsertSubscription(EmptyKv, SeedSubscription(1, kind)) :
                             kind \in {"both", "unlinked"}}
  /\ msgs = NoMessages
  /\ MigrateIdle
  /\ DispatchIdle
  /\ BatchIdle
  /\ tasks = [i \in Tasks |-> IdleTask]
  /\ started = 0
  /\ now = 1
  /\ AuthIdle /\ ServeIdle /\ SchedIdle /\ FormatIdle

\* db.setPlatformChatId / db.disablePlatform / db.updateLastSentAt is called.
DatabaseCall(op, u, p) ==
  Begin(NewTask(op, u, p,
                IF op # "setPlatformChatId" THEN 0
                ELSE IF p = "slack" THEN u ELSE TelegramChatId(u),
                IF op = "updateLastSentAt" THEN now ELSE 0, EntryPc(op)))

\* db.upsertSubscription(s): one atomic commit.  The task slot keeps the
\* argument (inner) and the record stored before the call (existing).
UpsertSubscription(s) ==
  /\ started < MaxOps
  /\ started' = started + 1
  /\ tasks' = [tasks EXCEPT ![started + 1] =
                 [NewTask("upsertSubscription", s.userId, "none", 0, 0, "done")
                    EXCEPT !.existing = getSubscriptionByUserId(kv, s.userId),
                           !.inner = <<s>>]]
  /\ kv' = upsertSubscription(kv, s)
  /\ UNCHANGED <<now, authVars, srv, sch, fmt, msgs, bat, mig, dis>>

NextDb ==
  \/ \E u \in Users, p \in Platform : DatabaseCall("setPlatformChatId", u, p)
  \/ \E u \in Users, p \in Platform : DatabaseCall("disablePlatform", u, p)
  \/ \E u \in Users : DatabaseCall("updateLastSentAt", u, "none")
  \/ \E u \in Users, e \in {<<>>, <<"slack">>, <<"telegram">>, <<"telegram", "slack">>} :
       LET cur == getSubscriptionByUserId(kv, u)
       IN  UpsertSubscription(IF cur # <<>> THEN [cur[1] EXCEPT !.enabled = e]
                              ELSE Subscription(u, NoPlatforms, e, 0, now, 0))
  \/ \E i \in Tasks : KvGet(i)
  \/ \E i \in Tasks : KvCommit(i)
  \/ \E i \in Tasks : KvCommitFail(i)

SpecDb == InitDb /\ [][NextDb]_vars

\* C24: when disablePlatform(u, P) commits for a record it read with P as the
\* only enabled platform, u leaves the active index; and an
\* upsertSubscription that enables a platform for a user whose stored
\* record has none enabled puts u back into the active index.
C24_SolePlatformLeavesAndReturns ==
  [][\A i \in Tasks :
       /\ ( /\ tasks[i].op = "disablePlatform" /\ tasks[i].pc = "dp_write"
            /\ tasks'[i].pc = "done"
            /\ tasks[i].inner[1].enabled = <<tasks[i].platform>> )
            => /\ tasks[i].user \notin getAllActiveSubscriptions(kv')
               /\ kv'["subscriptions"][tasks[i].user][1].enabled = <<>>
       /\ ( /\ tasks[i].pc = "idle" /\ tasks'[i].op = "upsertSubscription"
            /\ tasks'[i].existing # <<>>
            /\ tasks'[i].existing[1].enabled = <<>>
            /\ tasks'[i].inner[1].enabled # <<>> )
            => /\ tasks'[i].user \notin getAllActiveSubscriptions(kv)
               /\ tasks'[i].user \in getAllActiveSubscriptions(kv')
               /\ kv'["active_subscriptions"][tasks'[i].user] = tasks'[i].inner
  ]_vars

\* disablePlatform emptied the enabled list of user 1 (out of the index) and
\* a later upsertSubscription enabled a platform again (back in the index).
C24_Witness ==
  \E i, j \in Tasks :
    /\ tasks[i].op = "disablePlatform" /\ tasks[i].pc = "done" /\ tasks[i].user = 1
    /\ tasks[j].op = "upsertSubscription" /\ tasks[j].user = 1
    /\ tasks[j].existing # <<>> /\ tasks[j].existing[1].enabled = <<>>
    /\ tasks[j].inner[1].enabled # <<>>
    /\ 1 \in getAllActiveSubscriptions(kv)

\* C25: once upsertSubscription(s) has been called, calling it again with
\* the same s leaves the primary records and every index as they are.
C25_UpsertIdempotent ==
  [][\A i \in Tasks :
       (tasks[i].pc = "idle" /\ tasks'[i].op = "upsertSubscription")
         => upsertSubscription(kv', tasks'[i].inner[1]) = kv'
  ]_vars

\* upsertSubscription was called for a user with a stored record and for a
\* user without one, with and without an enabled platform.
C25_Witness ==
  \E i, j \in Tasks :
    /\ tasks[i].op = "upsertSubscription" /\ tasks[j].op = "upsertSubscription"
    /\ tasks[i].existing # <<>> /\ tasks[j].existing = <<>>
    /\ tasks[i].inner[1].enabled = <<>> /\ tasks[j].inner[1].enabled # <<>>

\* C26: setPlatformChatId, disablePlatform and updateLastSentAt that find no
\* record for the user return at once without an error, and the primary
\* records and every index stay as they were: no record is created.
C26_AbsentSubscriberNoOp ==
  [][\A i \in Tasks :
       ( /\ tasks[i].op \in {"setPlatformChatId", "disablePlatform", "updateLastSentAt"}
         /\ tasks[i].pc \in ReadPcs
         /\ tasks'[i] # tasks[i]
         /\ getSubscriptionByUserId(kv, tasks[i].user) = <<>> )
         => /\ tasks'[i].pc = "done"
            /\ kv' = kv
            /\ \A ks \in KeySpaces : kv'[ks][tasks[i].user] = <<>>
  ]_vars

\* setPlatformChatId and one of the other two methods have returned for user 2,
\* who has no record, next to a stored record of user 1.
C26_Witness ==
  /\ getSubscriptionByUserId(kv, 1) # <<>>
  /\ \A ks \in KeySpaces : kv[ks][2] = <<>>
  /\ \E i, j \in Tasks :
       /\ i # j
       /\ tasks[i].user = 2 /\ tasks[j].user = 2
       /\ tasks[i].pc = "done" /\ tasks[j].pc = "done"
       /\ tasks[i].op = "setPlatformChatId"
       /\ tasks[j].op \in {"disablePlatform", "updateLastSentAt"}

(***************************************************************************)
(* SpecBatch: batchProcess(items, getBatchSize(), fn) of the cron callback *)
(* for every value DAILY_SUMMARY_BATCH_SIZE can have.                      *)
(***************************************************************************)
MaxItems == 3

\* Deno.env.get('DAILY_SUMMARY_BATCH_SIZE'): <<"unset">> for undefined,
\* otherwise the characters of the value.
EnvBatchSizes ==
  {<<"unset">>, <<>>, <<"0">>, <<"1">>, <<"2">>, <<"1", "0">>, <<"-", "1">>,
   <<"-", "2">>, <<" ", "2">>, <<"2", ".", "5">>, <<"a", "b", "c">>}

\* The value of a decimal digit; -1 for any other character.
DigitValue(ch) ==
  LET digits == <<"0", "1", "2", "3", "4", "5", "6", "7", "8", "9">>
  IN  IF \E d \in 1..10 : digits[d] = ch
        THEN (CHOOSE d \in 1..10 : digits[d] = ch) - 1
        ELSE -1

\* The value of the longest prefix of digits, given the value read so far.
RECURSIVE LeadingDigits(_, _)
LeadingDigits(str, acc) ==
  IF str = <<>> \/ DigitValue(Head(str)) < 0 THEN acc
  ELSE LeadingDigits(Tail(str), 10 * acc + DigitValue(Head(str)))

\* parseInt(str, 10): leading white space is skipped, then an optional sign,
\* then the longest prefix of digits; NaN when there is no digit.
RECURSIVE ParseInt(_)
ParseInt(str) ==
  IF str # <<>> /\ Head(str) \in {" ", "\n"} THEN ParseInt(Tail(str))
  ELSE LET negative == str # <<>> /\ Head(str) = "-"
           signed == str # <<>> /\ Head(str) \in {"-", "+"}
           body == IF signed THEN Tail(str) ELSE str
       IN  IF body = <<>> \/ DigitValue(Head(body)) < 0 THEN NaN
           ELSE Num((IF negative THEN -1 ELSE 1) * LeadingDigits(body, 0))

\* getBatchSize: envBatchSize ? parseInt(envBatchSize, 10) : 10.  undefined
\* and the empty string are falsy; every other string is parsed.
getBatchSize(env) ==
  IF env = <<"unset">> \/ env = <<>> THEN Num(10) ELSE ParseInt(env)

\* a + b and a < b on JavaScript numbers.
Plus(a, b) == IF a.nan \/ b.nan THEN NaN ELSE Num(a.val + b.val)
LessThan(a, b) == ~a.nan /\ ~b.nan /\ a.val < b.val

\* Array.prototype.slice(start, end): NaN counts as 0, a negative index
\* counts from the end, and both are clamped to 0..length.
Slice(arr, start, end) ==
  LET len == Len(arr)
      Rel(x) == IF x.nan THEN 0
                ELSE IF x.val < 0 THEN (IF len + x.val < 0 THEN 0 ELSE len + x.val)
                ELSE IF x.val > len THEN len ELSE x.val
  IN  SubSeq(arr, Rel(start) + 1, Rel(end))

\* The loop counter as kept in the state: every i below -items.length slices
\* as -items.length does, so the counter is kept there.
Floor(i, len) == IF ~i.nan /\ i.val < -len THEN Num(-len) ELSE i

InitBatch ==
  /\ kv = EmptyKv
  /\ msgs = NoMessages
  /\ MigrateIdle
  /\ DispatchIdle
  /\ tasks = [t \in Tasks |-> IdleTask]
  /\ started = 0
  /\ now = 1
  /\ AuthIdle /\ ServeIdle /\ SchedIdle /\ FormatIdle
  /\ \E env \in EnvBatchSizes, n \in 0..MaxItems :
       bat = [pc |-> "test", env |-> env, batchSize |-> getBatchSize(env),
              items |-> [j \in 1..n |-> j], i |-> Num(0), batch |-> <<>>,
              results |-> <<>>, calls |-> [j \in 1..n |-> 0]]

\* The loop test holds: the batch is sliced and fn is called on each of its
\* items; batchProcess awaits Promise.all of the calls.
BatchStart ==
  /\ bat.pc = "test"
  /\ LessThan(bat.i, Num(Len(bat.items)))
  /\ LET batch == Slice(bat.items, bat.i, Plus(bat.i, bat.batchSize))
     IN  bat' = [bat EXCEPT !.pc = "awaiting", !.batch = batch,
                            !.calls = [j \in DOMAIN @ |->
                                         IF Includes(batch, bat.items[j])
                                           THEN @[j] + 1 ELSE @[j]]]
  /\ UNCHANGED <<storeVars, authVars, srv, sch, fmt, mig, dis>>

\* Promise.all resolves: the results are pushed and i += batchSize.
BatchResolved ==
  /\ bat.pc = "awaiting"
  /\ bat' = [bat EXCEPT !.pc = "test", !.batch = <<>>,
                        !.results = @ \o bat.batch,
                        !.i = Floor(Plus(@, bat.batchSize), Len(bat.items))]
  /\ UNCHANGED <<storeVars, authVars, srv, sch, fmt, mig, dis>>

\* The loop test fails: return results.
BatchReturn ==
  /\ bat.pc = "test"
  /\ ~LessThan(bat.i, Num(Len(bat.items)))
  /\ bat' = [bat EXCEPT !.pc = "returned"]
  /\ UNCHANGED <<storeVars, authVars, srv, sch, fmt, mig, dis>>

NextBatch == BatchStart \/ BatchResolved \/ BatchReturn

\* The event loop runs every continuation that is ready.
SpecBatch == InitBatch /\ [][NextBatch]_vars /\ WF_vars(NextBatch)

\* C28: for every value of DAILY_SUMMARY_BATCH_SIZE and every list of
\* subscribers, batchProcess returns, and when it has returned fn has been
\* called exactly once for each subscriber.
C28_RunCompletesOncePerSubscriber ==
  /\ <>(bat.pc = "returned")
  /\ [](bat.pc = "returned" => \A j \in 1..Len(bat.items) : bat.calls[j] = 1)

\* C29: when a Slack subscribe command completes for user u, the stored
\* record of u has 'slack' in enabled and platforms.slack = u, and u is in
\* the active index.
C29_SlackSubscribeLinksAndEnables ==
  [][\A i \in Tasks :
       ( /\ tasks[i].op = "handleSlackSubscribe"
         /\ tasks[i].pc \notin {"done", "failed"}
         /\ tasks'[i].pc = "done" )
         => LET u == tasks[i].user
                r == getSubscriptionByUserId(kv', u)
            IN  /\ r # <<>>
                /\ Includes(r[1].enabled, "slack")
                /\ r[1].platforms["slack"] = u
                /\ u \in getAllActiveSubscriptions(kv')
  ]_vars

\* C30: a subscriber with no work entry, or whose report generation failed,
\* is sent nothing on any platform and keeps the lastSentAt of the snapshot;
\* with no work entry the generator is not called.
C30_NoEntryOrFailedGenerationNoEffect ==
  /\ \A j \in 1..Len(sch.procs) :
       LET sub == sch.subscriptions[j]
           proc == sch.procs[j]
       IN  /\ proc.messages = "empty" => proc.generated = "none"
           /\ (proc.messages = "empty" \/ proc.generated = "fail")
                => /\ \A p \in Platform : proc.sent[p] = "none"
                   /\ ~proc.updated
                   /\ proc.pc = "done" /\ ~proc.result.success
                   /\ getSubscriptionByUserId(kv, sub.userId)[1].lastSentAt = sub.lastSentAt
  /\ \A j \in 1..Len(sch.observed) :
       LET o == sch.observed[j]
       IN  /\ o.messages = "empty" => o.generated = "none"
           /\ (o.messages = "empty" \/ o.generated = "fail")
                => /\ ~o.dispatched /\ ~o.updated
                   /\ getSubscriptionByUserId(kv, sch.subscriptions[j].userId)[1].lastSentAt
                        = sch.subscriptions[j].lastSentAt

\* Of two subscribers with both platforms enabled and linked one had no
\* work entry and the other's generation failed; a later subscriber of the
\* same run was sent its report and had lastSentAt written.
C30_Witness ==
  /\ \E j, k \in 1..Len(sch.observed) :
       /\ sch.observed[j].messages = "empty"
       /\ sch.observed[k].messages = "some" /\ sch.observed[k].generated = "fail"
       /\ \A p \in Platform : /\ Includes(sch.subscriptions[j].enabled, p)
                              /\ sch.subscriptions[j].platforms[p] # 0
                              /\ Includes(sch.subscriptions[k].enabled, p)
                              /\ sch.subscriptions[k].platforms[p] # 0
  /\ \E j \in 1..Len(sch.procs) :
       /\ sch.procs[j].pc = "done" /\ sch.procs[j].updated
       /\ \E p \in Platform : sch.procs[j].sent[p] = "ok"

\* C33: slackWebhookValidation makes exactly one call per request: one error
\* response (401 for a missing header or secret, an unparseable or stale
\* timestamp or a signature that differs; 500 for a body that is no raw
\* buffer; 400 for an authentic body that is not valid JSON) and no next(),
\* or next() and no response.
C33_ExactlyOneOutcome ==
  ares.mw # "pending" =>
    LET unauthorized ==
          \/ MissingCredentials(areq.ts, areq.sig, areq.secret)
          \/ areq.ts.kind # "num"
          \/ Abs(areq.nowSec - areq.ts.val) > 300
        mismatch == areq.sig # Expected
    IN  /\ Len(ares.calls) = 1
        /\ ares.calls[1] \in {"401", "500", "400", "next"}
        /\ ares.calls[1] = "401" <=> (unauthorized \/ (areq.body.isBuffer /\ mismatch))
        /\ ares.calls[1] = "500" <=> (~unauthorized /\ ~areq.body.isBuffer)
        /\ ares.calls[1] = "400" <=>
             (~unauthorized /\ areq.body.isBuffer /\ ~mismatch /\ ~areq.body.validJson)
        /\ ares.calls[1] = "next" <=>
             (~unauthorized /\ areq.body.isBuffer /\ ~mismatch /\ areq.body.validJson)

\* A correctly signed, fresh request whose body is not valid JSON was
\* answered 400 and not passed on.
C33_Witness ==
  /\ ares.calls = <<"400">>
  /\ areq.secret # 0 /\ areq.sig = Expected /\ ~areq.body.validJson

\* C34: in every state, under every key the enabled list of a stored
\* subscription holds each platform tag at most once, also when subscribe
\* commands for the same user and platform are interleaved.
C34_NoDuplicatePlatformTags ==
  \A ks \in KeySpaces, u \in Users :
    kv[ks][u] # <<>> =>
      LET enabled == kv[ks][u][1].enabled
      IN  \A a, b \in 1..Len(enabled) : enabled[a] = enabled[b] => a = b

\* Two Telegram subscribe commands of one user both read the store before
\* either wrote, and both have committed their upsert.
C34_Witness ==
  \E i, j \in Tasks :
    /\ i # j
    /\ tasks[i].op = "handleSubscribe" /\ tasks[j].op = "handleSubscribe"
    /\ tasks[i].user = tasks[j].user
    /\ tasks[i].pc = "hs_spc_read" /\ tasks[j].pc = "hs_spc_read"
    /\ tasks[i].existing = <<>> /\ tasks[j].existing = <<>>
    /\ getSubscriptionByUserId(kv, tasks[i].user)[1].enabled = <<"telegram">>

\* C35: once disablePlatform(u, P) has completed and P is out of u's enabled
\* list, the commit of an updateLastSentAt or a setPlatformChatId for u does
\* not bring P back into the list, nor u back into the active index.
C35_UnsubscribeStays ==
  [][\A i, j \in Tasks :
       ( /\ tasks[i].op \in {"updateLastSentAt", "setPlatformChatId"}
         /\ tasks[i].pc \in WritePcs /\ tasks'[i].pc = "done"
         /\ tasks[j].op = "disablePlatform" /\ tasks[j].pc = "done"
         /\ tasks[j].user = tasks[i].user
         /\ ~Includes(getSubscriptionByUserId(kv, tasks[i].user)[1].enabled,
                      tasks[j].platform) )
         => /\ ~Includes(getSubscriptionByUserId(kv', tasks[i].user)[1].enabled,
                         tasks[j].platform)
            /\ (tasks[i].user \notin getAllActiveSubscriptions(kv)
                  => tasks[i].user \notin getAllActiveSubscriptions(kv'))
  ]_vars

(***************************************************************************)
(* SpecResubscribe: subscribe and unsubscribe commands of a user whose     *)
(* record exists already, with a time zone and an earlier delivery.        *)
(***************************************************************************)
InitResubscribe ==
  /\ \E enabled \in {<<"slack">>, <<>>} :
       kv = upsertSubscription(EmptyKv,
              Subscription(1, [NoPlatforms EXCEPT !["slack"] = 1], enabled, 7, 1, 1))
  /\ msgs = NoMessages
  /\ MigrateIdle
  /\ DispatchIdle
  /\ BatchIdle
  /\ tasks = [i \in Tasks |-> IdleTask]
  /\ started = 0
  /\ now = 2
  /\ AuthIdle /\ ServeIdle /\ SchedIdle /\ FormatIdle

NextResubscribe ==
  \/ \E u \in Users : StartHandleSubscribe(u)
  \/ \E u \in Users : StartHandleSlackSubscribe(u)
  \/ \E u \in Users : StartHandleSlackUnsubscribe(u)
  \/ \E u \in Users : StartHandleUnsubscribeConfirm(u)
  \/ \E i \in Tasks : KvGet(i)
  \/ \E i \in Tasks : KvCommit(i)

SpecResubscribe == InitResubscribe /\ [][NextResubscribe]_vars

\* C37: a commit made by a subscribe or unsubscribe command for a user who
\* has a record leaves the record's subscribedAt, lastSentAt and timezone
\* as they were.
C37_SubscribeKeepsOtherFields ==
  [][\A i \in Tasks :
       ( /\ tasks[i].op \in {"handleSubscribe", "handleSlackSubscribe",
                             "handleUnsubscribeConfirm", "disablePlatform"}
         /\ tasks[i].pc \in WritePcs /\ tasks'[i].pc # tasks[i].pc
         /\ getSubscriptionByUserId(kv, tasks[i].user) # <<>> )
         => LET before == getSubscriptionByUserId(kv, tasks[i].user)[1]
                after == getSubscriptionByUserId(kv', tasks[i].user)[1]
            IN  /\ after.subscribedAt = before.subscribedAt
                /\ after.lastSentAt = before.lastSentAt
                /\ after.timezone = before.timezone
  ]_vars

(***************************************************************************)
(* SpecMigrate: migrateSlackUsersToSubscriptions and rollbackMigration     *)
(* next to one Telegram subscribe command of user 1.                       *)
(***************************************************************************)
\* The value under ['users', id]: absent, or an OldUser; subscribedAt = 0
\* stands for undefined.
OldUsers(u) ==
  {<<>>} \cup {<<[id |-> u, subscribed |-> FALSE, subscribedAt |-> 0]>>}
         \cup {<<[id |-> u, subscribed |-> TRUE, subscribedAt |-> at]>> : at \in {0, 1}}

InitMigrate ==
  /\ kv = EmptyKv
  /\ msgs = NoMessages
  /\ BatchIdle /\ DispatchIdle
  /\ tasks = [i \in Tasks |-> IdleTask]
  /\ started = 0
  /\ now = 2
  /\ AuthIdle /\ ServeIdle /\ SchedIdle /\ FormatIdle
  /\ \E users \in [Users -> UNION {OldUsers(u) : u \in Users}] :
       /\ \A u \in Users : users[u] \in OldUsers(u)
       /\ mig = [phase |-> "ready", users |-> users, queue |-> <<>>, migrated |-> {},
                 flag |-> FALSE]

\* runMigrationIfNeeded finds no migration flag and
\* migrateSlackUsersToSubscriptions collects the ['users'] entries.
MigrateStart ==
  /\ mig.phase = "ready"
  /\ ~mig.flag
  /\ mig' = [mig EXCEPT !.phase = "migrating", !.queue = ListFrom(mig.users, 1)]
  /\ UNCHANGED <<storeVars, authVars, srv, sch, fmt, bat, dis>>

\* One iteration of the migration loop: a user who is not subscribed is
\* skipped; for a subscribed one the new record is upserted and the
\* ['users', id, '_migrated'] marker is set.
MigrateUser ==
  /\ mig.phase = "migrating"
  /\ mig.queue # <<>>
  /\ LET oldUser == Head(mig.queue)
     IN  IF ~oldUser.subscribed
           THEN /\ mig' = [mig EXCEPT !.queue = Tail(@)]
                /\ kv' = kv
           ELSE /\ kv' = upsertSubscription(kv,
                           Subscription(oldUser.id,
                                        [NoPlatforms EXCEPT !["slack"] = oldUser.id],
                                        <<"slack">>, 0,
                                        IF oldUser.subscribedAt # 0
                                          THEN oldUser.subscribedAt ELSE now,
                                        0))
                /\ mig' = [mig EXCEPT !.queue = Tail(@),
                                      !.migrated = @ \cup {oldUser.id}]
  /\ UNCHANGED <<tasks, started, now, msgs, authVars, srv, sch, fmt, bat, dis>>

\* After the loop the migration flag is set.
MigrateFinish ==
  /\ mig.phase = "migrating"
  /\ mig.queue = <<>>
  /\ mig' = [mig EXCEPT !.phase = "ready", !.flag = TRUE]
  /\ UNCHANGED <<storeVars, authVars, srv, sch, fmt, bat, dis>>

\* rollbackMigration reads the active subscriptions.
RollbackStart ==
  /\ mig.phase = "ready"
  /\ mig' = [mig EXCEPT !.phase = "rolling_back", !.queue = ActiveSubscriptionList(kv)]
  /\ UNCHANGED <<storeVars, authVars, srv, sch, fmt, bat, dis>>

\* A rollback that removes the record under all three keys.
RollbackDeletesAllKeys(store_, userId) ==
  [ks \in KeySpaces |-> [store_[ks] EXCEPT ![userId] = <<>>]]

\* The deletes of one iteration of the rollback loop:
\* kv.delete(['subscriptions', sub.userId]).
RollbackDeletes(store_, userId) ==
  [store_ EXCEPT !["subscriptions"][userId] = <<>>]

\* One iteration of the rollback loop: for a subscription with a Slack chat
\* id the primary record and the migration marker are deleted.
RollbackSubscription ==
  /\ mig.phase = "rolling_back"
  /\ mig.queue # <<>>
  /\ LET sub == Head(mig.queue)
     IN  IF sub.platforms["slack"] # 0
           THEN /\ kv' = RollbackDeletes(kv, sub.userId)
                /\ mig' = [mig EXCEPT !.queue = Tail(@),
                                      !.migrated = @ \ {sub.platforms["slack"]}]
           ELSE /\ kv' = kv
                /\ mig' = [mig EXCEPT !.queue = Tail(@)]
  /\ UNCHANGED <<tasks, started, now, msgs, authVars, srv, sch, fmt, bat, dis>>

\* After the loop the migration flag is deleted.
RollbackFinish ==
  /\ mig.phase = "rolling_back"
  /\ mig.queue = <<>>
  /\ mig' = [mig EXCEPT !.phase = "ready", !.flag = FALSE]
  /\ UNCHANGED <<storeVars, authVars, srv, sch, fmt, bat, dis>>

NextMigrate ==
  \/ MigrateStart
  \/ MigrateUser
  \/ MigrateFinish
  \/ RollbackStart
  \/ RollbackSubscription
  \/ RollbackFinish
  \/ started = 0 /\ StartHandleSubscribe(1)
  \/ \E i \in Tasks : KvGet(i)
  \/ \E i \in Tasks : KvCommit(i)

SpecMigrate == InitMigrate /\ [][NextMigrate]_vars

\* C36: in every state, also during and after the migration and its
\* rollback, every entry of the active index has a primary record of the
\* same user with the same value.
C36_NoOrphanedActiveEntry ==
  \A u \in Users :
    kv["active_subscriptions"][u] # <<>>
      => kv["subscriptions"][u] = kv["active_subscriptions"][u]

(***************************************************************************)
(* SpecDispatch: the platform loops of one run followed send by send, for  *)
(* subscribers that are all in one batch and all have a work entry, while  *)
(* subscribers unsubscribe.                                                *)
(***************************************************************************)
MaxParts == 2

\* A platform loop that starts the sends of all remaining platforms at once.
StartSendsAllAtOnce(sub, proc, k) ==
  LET rest == {n \in k..Len(sub.enabled) : sub.platforms[sub.enabled[n]] # 0}
  IN  IF rest = {} THEN [proc EXCEPT !.pc = "update", !.k = Len(sub.enabled) + 1,
                                     !.c = 0, !.inflight = {}]
      ELSE [proc EXCEPT !.pc = "send", !.k = CHOOSE n \in rest : \A m \in rest : n <= m,
                        !.c = 1, !.inflight = {<<sub.enabled[n], 1>> : n \in rest}]

\* The platform loop from index k on: platforms without a chat id are
\* skipped, then bot.sendMessage is called for the first part of the next
\* platform and awaited; after the last platform updateLastSentAt is called.
StartSends(sub, proc, k) ==
  LET n == SkipAbsent(sub, k, [p \in Platform |-> "none"]).k
  IN  IF n > Len(sub.enabled)
        THEN [proc EXCEPT !.pc = "update", !.k = n, !.c = 0, !.inflight = {}]
        ELSE [proc EXCEPT !.pc = "send", !.k = n, !.c = 1,
                          !.inflight = {<<sub.enabled[n], 1>>}]

\* A parts loop that catches the error of a part and goes on with the next.
AfterSendKeepsSending(sub, proc, parts, resolved) ==
  IF sub.enabled[proc.k] = "telegram" /\ proc.c < parts
    THEN [proc EXCEPT !.c = @ + 1, !.inflight = {<<"telegram", proc.c + 1>>}]
    ELSE StartSends(sub, [proc EXCEPT !.inflight = {}], proc.k + 1)

\* A platform loop that sends to the same platform again after a failure.
AfterSendRetries(sub, proc, parts, resolved) ==
  IF resolved /\ sub.enabled[proc.k] = "telegram" /\ proc.c < parts
    THEN [proc EXCEPT !.c = @ + 1, !.inflight = {<<"telegram", proc.c + 1>>}]
    ELSE StartSends(sub, [proc EXCEPT !.inflight = {}],
                    IF resolved THEN proc.k + 1 ELSE proc.k)

\* The awaited bot.sendMessage settles.  Slack gets the one formatted
\* string; Telegram gets the parts one after the other (for ... of parts,
\* each awaited).  A rejection leaves the parts loop for the platform's catch
\* block, and the platform loop goes on.
AfterSend(sub, proc, parts, resolved) ==
  IF resolved /\ sub.enabled[proc.k] = "telegram" /\ proc.c < parts
    THEN [proc EXCEPT !.c = @ + 1, !.inflight = {<<"telegram", proc.c + 1>>}]
    ELSE StartSends(sub, [proc EXCEPT !.inflight = {}], proc.k + 1)

InitDispatch ==
  /\ msgs = NoMessages
  /\ BatchIdle /\ MigrateIdle
  /\ tasks = [i \in Tasks |-> IdleTask]
  /\ started = 0
  /\ now = 2
  /\ AuthIdle /\ ServeIdle /\ SchedIdle /\ FormatIdle
  /\ \E order \in [Users -> {<<>>, <<"slack", "telegram">>, <<"telegram", "slack">>}] :
       kv = [ks \in KeySpaces |-> [u \in Users |->
               IF order[u] = <<>> THEN <<>>
               ELSE <<Subscription(u, [slack |-> u, telegram |-> TelegramChatId(u)],
                                   order[u], 0, 1, 0)>>]]
  /\ \E parts \in 1..MaxParts :
       dis = [phase |-> "scheduled", parts |-> parts, subscriptions |-> <<>>,
              procs |-> <<>>]

\* The cron callback lists the active subscribers and batchProcess calls
\* processSubscription for each of them: every call awaits its work entries
\* and then its report.
DispatchListed ==
  /\ dis.phase = "scheduled"
  /\ LET subscriptions == ActiveSubscriptionList(kv)
     IN  dis' = [dis EXCEPT !.phase = "running", !.subscriptions = subscriptions,
                            !.procs = [j \in 1..Len(subscriptions) |->
                                         [pc |-> "envoke", k |-> 0, c |-> 0,
                                          inflight |-> {}, log |-> <<>>]]]
  /\ UNCHANGED <<storeVars, authVars, srv, sch, fmt, bat, mig>>

\* agent.envoke resolves with a report: the platform loop starts.
Generated(j) ==
  /\ dis.phase = "running"
  /\ dis.procs[j].pc = "envoke"
  /\ dis' = [dis EXCEPT !.procs[j] = StartSends(dis.subscriptions[j], @, 1)]
  /\ UNCHANGED <<storeVars, authVars, srv, sch, fmt, bat, mig>>

\* The provider answers the send in flight for subscriber j.
SendSettled(j, answer) ==
  /\ dis.phase = "running"
  /\ dis.procs[j].pc = "send"
  /\ LET sub == dis.subscriptions[j]
         proc == dis.procs[j]
         platform == sub.enabled[proc.k]
     IN  dis' = [dis EXCEPT !.procs[j] =
           AfterSend(sub,
                     [proc EXCEPT !.log = Append(@, [platform |-> platform,
                                                     part |-> proc.c,
                                                     answer |-> answer])],
                     dis.parts, BotSendMessage(platform, answer) = "resolves")]
  /\ UNCHANGED <<storeVars, authVars, srv, sch, fmt, bat, mig>>

\* db.updateLastSentAt resolves and processSubscription returns.
DispatchUpdated(j) ==
  /\ dis.phase = "running"
  /\ dis.procs[j].pc = "update"
  /\ kv' = RunTask(NewTask("updateLastSentAt", dis.subscriptions[j].userId, "none", 0,
                           now, "ul_read"), kv, now)
  /\ dis' = [dis EXCEPT !.procs[j].pc = "done"]
  /\ UNCHANGED <<tasks, started, now, msgs, authVars, srv, sch, fmt, bat, mig>>

\* Promise.all of the batch resolves and the run is over.
DispatchCompleted ==
  /\ dis.phase = "running"
  /\ \A j \in 1..Len(dis.procs) : dis.procs[j].pc = "done"
  /\ dis' = [dis EXCEPT !.phase = "done"]
  /\ UNCHANGED <<storeVars, authVars, srv, sch, fmt, bat, mig>>

\* While the run is under way user u unsubscribes on platform p (Slack
\* /unsubscribe, Telegram confirmation button); one such command per run.
Unsubscribed(u, p) ==
  /\ dis.phase = "running"
  /\ started = 0
  /\ getSubscriptionByUserId(kv, u) # <<>>
  /\ Includes(getSubscriptionByUserId(kv, u)[1].enabled, p)
  /\ kv' = RunTask(NewTask("disablePlatform", u, p, 0, 0, "dp_read"), kv, now)
  /\ started' = 1
  /\ UNCHANGED <<tasks, now, msgs, authVars, srv, sch, fmt, bat, mig, dis>>

NextDispatch ==
  \/ DispatchListed
  \/ \E j \in 1..Len(dis.procs) : Generated(j)
  \/ \E j \in 1..Len(dis.procs), answer \in {"ok", "failed"} : SendSettled(j, answer)
  \/ \E j \in 1..Len(dis.procs) : DispatchUpdated(j)
  \/ DispatchCompleted
  \/ \E u \in Users, p \in Platform : Unsubscribed(u, p)

SpecDispatch == InitDispatch /\ [][NextDispatch]_vars

\* C31: for one subscriber and platform the parts are sent in the order
\* they were produced, each one only after the one before it was answered; no
\* part follows a failed part on that platform, and the next platform with a
\* chat id is attempted all the same.
C31_ChunksInOrder ==
  \A j \in 1..Len(dis.procs) :
    LET sub == dis.subscriptions[j]
        proc == dis.procs[j]
        On(p) == {i \in 1..Len(proc.log) : proc.log[i].platform = p}
    IN  /\ \A p \in Platform : \A i \in On(p) :
             /\ proc.log[i].part = Cardinality({h \in On(p) : h <= i})
             /\ proc.log[i].part <= (IF p = "telegram" THEN dis.parts ELSE 1)
             /\ \A h \in On(p) : h < i => proc.log[h].answer = "ok"
        /\ \A x \in proc.inflight :
             /\ x[2] = Cardinality(On(x[1])) + 1
             /\ \A h \in On(x[1]) : proc.log[h].answer = "ok"
        /\ proc.pc \in {"update", "done"} =>
             \A n \in 1..Len(sub.enabled) :
               LET p == sub.enabled[n]
               IN  sub.platforms[p] # 0 =>
                     /\ On(p) # {}
                     /\ (\A h \in On(p) : proc.log[h].answer = "ok") =>
                          Cardinality(On(p)) = (IF p = "telegram" THEN dis.parts ELSE 1)

\* The first of two parts failed on Telegram, the second was never sent,
\* and Slack was sent to afterwards.
C31_Witness ==
  /\ dis.parts = 2
  /\ \E j \in 1..Len(dis.procs) :
       /\ dis.procs[j].pc = "done"
       /\ dis.procs[j].log = <<[platform |-> "telegram", part |-> 1, answer |-> "failed"],
                               [platform |-> "slack", part |-> 1, answer |-> "ok"]>>

\* C32: one subscriber never has two sends in flight, while two subscribers
\* of the same batch may each have one.
C32_OneSendInFlightPerSubscriber ==
  \A j \in 1..Len(dis.procs) : Cardinality(dis.procs[j].inflight) <= 1

\* Two subscribers of the batch each have a send in flight.
C32_Witness ==
  \E j, h \in 1..Len(dis.procs) :
    /\ j # h
    /\ dis.procs[j].inflight # {}
    /\ dis.procs[h].inflight # {}

\* C38: a send is started only on a platform that is in the subscriber's
\* stored enabled list at that moment.
C38_SendOnlyToEnabledPlatform ==
  [][\A j \in 1..Len(dis.procs) :
       Len(dis'.procs) = Len(dis.procs) =>
         \A x \in dis'.procs[j].inflight \ dis.procs[j].inflight :
           LET stored == getSubscriptionByUserId(kv, dis.subscriptions[j].userId)
           IN  /\ stored # <<>>
               /\ Includes(stored[1].enabled, x[1])]_vars

\* C39: within one run no subscriber is listed twice and no subscriber gets
\* a part of the report twice on one platform: a platform is dispatched once.
C39_AtMostOncePerRun ==
  /\ \A j, h \in 1..Len(dis.subscriptions) :
       dis.subscriptions[j].userId = dis.subscriptions[h].userId => j = h
  /\ \A j \in 1..Len(dis.procs) :
       LET log == dis.procs[j].log
       IN  /\ \A i, h \in 1..Len(log) :
                 (log[i].platform = log[h].platform /\ log[i].part = log[h].part) => i = h
           /\ \A i, h \in 1..Len(log) :
                 (i < h /\ log[i].platform = log[h].platform) =>
                   \A m \in i..h : log[m].platform = log[i].platform

\* The run is over; two subscribers were sent every part on both platforms,
\* one of them after a failed send.
C39_Witness ==
  /\ dis.phase = "done"
  /\ dis.parts = 2
  /\ \E j, h \in 1..Len(dis.procs) :
       /\ j # h
       /\ Len(dis.procs[j].log) = 3
       /\ \A i \in 1..3 : dis.procs[j].log[i].answer = "ok"
       /\ Len(dis.procs[h].log) = 2
       /\ dis.procs[h].log[1].answer = "failed"

====
